---- MODULE Spec2Model ----
(***************************************************************************)
(* Model of the signal-computation and orchestration core of the trading   *)
(* system: the indicator agents (UnifiedAgent / SubAgent run protocol),    *)
(* the configuration structs and their validate() methods, and the         *)
(* OrchestratorAgent that runs four indicators sequentially or on a        *)
(* 4-slot thread pool and applies the 2-of-4 vote.                         *)
(*                                                                         *)
(* Numbers.  Prices are integers.  Floating-point columns are modelled     *)
(* exactly over the rationals by scaling (rolling sums instead of rolling  *)
(* means, both sides of a comparison multiplied by the common              *)
(* denominator); the exponential moving averages are modelled in fixed     *)
(* point.  NaN is a distinguished value on which every comparison is       *)
(* false, as in IEEE arithmetic.                                           *)
(***************************************************************************)
EXTENDS Integers, Sequences, FiniteSets, TLC

VARIABLES
    \* ---- OrchestratorAgent.run ----
    daily_df,        \* argument daily_df of run()
    monthly_df,      \* argument monthly_df of run() (None when not supplied)
    mode,            \* argument mode of run()
    status,          \* OrchestratorAgent.status
    pc,              \* position of the thread executing run()
    monthly,         \* local monthly_df of run_sub_agents_*
    fut,             \* state of each submitted future / sequential call
    fut_result,      \* outcome held by each finished future
    results,         \* local dict results of run_sub_agents_*
    buy_evaluation,  \* local buy_evaluation of run()
    returned,        \* value returned by run() (None until it returns)
    agent_status,    \* .status of the four sub-agents
    heap,            \* the tables (DataFrame objects) by identity
    wrote,           \* the table each sub-agent's process() assigned columns on
    \* ---- one indicator agent: construction and run() ----
    config,          \* a configuration struct
    validate_result, \* outcome of config.validate()
    agent,           \* the agent built from config (None before __init__)
    agent_df,        \* argument df of agent.run()
    agent_pc,        \* position inside agent.run()
    process_calls,   \* number of times process() was entered
    agent_result,    \* value returned by agent.run()
    \* ---- AgentOrchestrator (src/orchestrator.py) ----
    legacy_agents,   \* AgentOrchestrator.agents
    legacy_data,     \* AgentOrchestrator.data
    legacy_results,  \* AgentOrchestrator.results
    legacy_pc,       \* position of the caller of the AgentOrchestrator
    consolidated     \* outcome of get_consolidated_signals() (None before)

orchVars == <<daily_df, monthly_df, mode, status, pc, monthly, fut, fut_result,
              results, buy_evaluation, returned, agent_status, heap, wrote>>
agentVars == <<config, validate_result, agent, agent_df, agent_pc,
               process_calls, agent_result>>
legacyVars == <<legacy_agents, legacy_data, legacy_results, legacy_pc,
                consolidated>>
vars == <<daily_df, monthly_df, mode, status, pc, monthly, fut, fut_result,
          results, buy_evaluation, returned, agent_status, heap, wrote,
          config, validate_result, agent, agent_df, agent_pc,
          process_calls, agent_result,
          legacy_agents, legacy_data, legacy_results, legacy_pc,
          consolidated>>

(***************************************************************************)
(* Values                                                                  *)
(***************************************************************************)
\* Python None, as a record so that it can be compared with dicts.
None == [none |-> TRUE]

\* float NaN of a derived column (rolling window not yet full, 0/0).
NaN == -1000000

IsNaN(x) == x = NaN

\* IEEE comparisons: false as soon as one side is NaN.
Lt(x, y) == ~IsNaN(x) /\ ~IsNaN(y) /\ x < y
Le(x, y) == ~IsNaN(x) /\ ~IsNaN(y) /\ x <= y
Gt(x, y) == ~IsNaN(x) /\ ~IsNaN(y) /\ x > y
Ge(x, y) == ~IsNaN(x) /\ ~IsNaN(y) /\ x >= y

Abs(x) == IF x < 0 THEN -x ELSE x
Max2(x, y) == IF x >= y THEN x ELSE y
Min2(x, y) == IF x <= y THEN x ELSE y

RECURSIVE SumRange(_, _, _)
\* sum of s[lo..hi]
SumRange(s, lo, hi) == IF lo > hi THEN 0 ELSE s[hi] + SumRange(s, lo, hi - 1)

(***************************************************************************)
(* Bounds of the model                                                     *)
(***************************************************************************)
\* longest series fed to a single agent in SpecAgent
MaxLen == 4
\* closes of those series range over 1..MaxClose
MaxClose == 3
\* configuration periods range over -1..MaxPeriod in SpecConfig
MaxPeriod == 2
\* the closes of those series are counted in ticks of 1 / TicksPerUnit of
\* the price unit (a close of 3 is the price 0.012)
TicksPerUnit == 250
\* number of bars of the longest steadily rising series
RisingLen == 7
\* High - Close of the one wide bar of a rising series
SpikeHigh == 12

(***************************************************************************)
(* Configuration structs (src/config.py).  A struct is a record; the       *)
(* dataclasses define no __post_init__, so construction stores the fields  *)
(* as given and validate() runs only when it is called.                    *)
(***************************************************************************)
MACDConfig(fast, slow, signal) ==
    [type |-> "MACDConfig", fast_period |-> fast, slow_period |-> slow,
     signal_period |-> signal]

RSIConfig(period, overbought, oversold, xoverbought, xoversold) ==
    [type |-> "RSIConfig", period |-> period,
     overbought_threshold |-> overbought, oversold_threshold |-> oversold,
     extreme_overbought |-> xoverbought, extreme_oversold |-> xoversold]

SMAConfig(short, long) ==
    [type |-> "SMAConfig", short_period |-> short, long_period |-> long]

SMADeltaConfig(short, long) ==
    [type |-> "SMADeltaConfig", short_lookback_months |-> short,
     long_lookback_months |-> long]

SupertrendConfig(length, multiplier) ==
    [type |-> "SupertrendConfig", atr_length |-> length,
     atr_multiplier |-> multiplier]

\* raise ValueError(msg)
ValueError(msg) == [exc |-> "ValueError", msg |-> msg]

\* MACDConfig.validate with equal fast and slow periods accepted
MACDConfig_validate_strict(c) ==
    IF c.fast_period > c.slow_period
    THEN ValueError("MACD fast_period must be less than slow_period")
    ELSE IF c.fast_period < 1 \/ c.slow_period < 1 \/ c.signal_period < 1
    THEN ValueError("MACD periods must be positive integers")
    ELSE None

\* validate() returns None or raises; the first failing test decides.
MACDConfig_validate(c) ==
    IF c.fast_period >= c.slow_period
    THEN ValueError("MACD fast_period must be less than slow_period")
    ELSE IF c.fast_period < 1 \/ c.slow_period < 1 \/ c.signal_period < 1
    THEN ValueError("MACD periods must be positive integers")
    ELSE None

RSIConfig_validate(c) ==
    IF c.period < 1
    THEN ValueError("RSI period must be a positive integer")
    ELSE IF ~(0 <= c.oversold_threshold
              /\ c.oversold_threshold < c.overbought_threshold
              /\ c.overbought_threshold <= 100)
    THEN ValueError("RSI thresholds must satisfy: 0 <= oversold < overbought <= 100")
    ELSE IF ~(0 <= c.extreme_oversold /\ c.extreme_oversold <= 100)
    THEN ValueError("RSI extreme_oversold must be between 0 and 100")
    ELSE IF ~(0 <= c.extreme_overbought /\ c.extreme_overbought <= 100)
    THEN ValueError("RSI extreme_overbought must be between 0 and 100")
    ELSE None

SMAConfig_validate(c) ==
    IF c.short_period >= c.long_period
    THEN ValueError("SMA short_period must be less than long_period")
    ELSE IF c.short_period < 1 \/ c.long_period < 1
    THEN ValueError("SMA periods must be positive integers")
    ELSE None

SMADeltaConfig_validate(c) ==
    IF c.short_lookback_months < 1 \/ c.long_lookback_months < 1
    THEN ValueError("SMA Delta lookback periods must be positive integers")
    ELSE IF c.short_lookback_months >= c.long_lookback_months
    THEN ValueError("SMA Delta short_lookback must be less than long_lookback")
    ELSE None

SupertrendConfig_validate(c) ==
    IF c.atr_length < 1
    THEN ValueError("Supertrend ATR length must be a positive integer")
    ELSE IF c.atr_multiplier <= 0
    THEN ValueError("Supertrend ATR multiplier must be positive")
    ELSE None

\* config.validate(), dispatched on the struct's class
validate(c) ==
    CASE c.type = "MACDConfig" -> MACDConfig_validate(c)
      [] c.type = "RSIConfig" -> RSIConfig_validate(c)
      [] c.type = "SMAConfig" -> SMAConfig_validate(c)
      [] c.type = "SMADeltaConfig" -> SMADeltaConfig_validate(c)
      [] c.type = "SupertrendConfig" -> SupertrendConfig_validate(c)

\* Field values the structs are constructed with in SpecConfig.
Periods == -1 .. MaxPeriod
Thresholds == {-1, 0, 30, 70, 100, 101}
Multipliers == {-1, 0, 1, 3}

ConfigInputs ==
    {MACDConfig(f, s, g) : f \in Periods, s \in Periods, g \in Periods}
    \cup {RSIConfig(p, ob, os, xob, xos) :
             p \in {0, 1, 14}, ob \in Thresholds, os \in Thresholds,
             xob \in Thresholds, xos \in Thresholds}
    \cup {SMAConfig(s, l) : s \in Periods, l \in Periods}
    \cup {SMADeltaConfig(s, l) : s \in Periods, l \in Periods}
    \cup {SupertrendConfig(n, m) : n \in Periods, m \in Multipliers}

(***************************************************************************)
(* DataFrames.  A frame is a record: the set of its column names, its      *)
(* index kind and its rows in chronological order.  A row (bar) carries    *)
(* the month its Date falls in and the OHLCV values; a field whose column  *)
(* is not in cols is not part of the frame and is never read.              *)
(***************************************************************************)
OHLCV == {"Date", "Open", "High", "Low", "Close", "Volume"}

Bar(m, o, h, l, c, v) ==
    [month |-> m, Open |-> o, High |-> h, Low |-> l, Close |-> c, Volume |-> v]

DataFrame(cols, index, rows) == [cols |-> cols, index |-> index, rows |-> rows]

\* pd.DataFrame(): no column, no row
EmptyFrame == DataFrame({}, "RangeIndex", <<>>)

\* len(df)
len(df) == Len(df.rows)

\* df.empty: some axis has length 0
empty(df) == df.cols = {} \/ Len(df.rows) = 0

\* the column df[name] as a sequence of numbers
Column(df, name) == [i \in 1 .. Len(df.rows) |-> df.rows[i][name]]

(***************************************************************************)
(* Exceptions (src/exceptions.py) as records; error_msg is the             *)
(* f"{type(e).__name__}: {str(e)}" text stored in a failed result, kept    *)
(* structured: the exception's class and the values its message prints.    *)
(***************************************************************************)
EmptyDataFrameError(agent_name) ==
    [exc |-> "EmptyDataFrameError", agent_name |-> agent_name]

MissingColumnsError(missing_columns, agent_name) ==
    [exc |-> "MissingColumnsError", missing_columns |-> missing_columns,
     agent_name |-> agent_name]

InsufficientDataError(required, actual, agent_name) ==
    [exc |-> "InsufficientDataError", required |-> required, actual |-> actual,
     agent_name |-> agent_name]

\* exceptions raised by pandas / Python on the frames themselves
KeyError(key) == [exc |-> "KeyError", key |-> key]
IndexError == [exc |-> "IndexError"]
AttributeError == [exc |-> "AttributeError"]
TypeError == [exc |-> "TypeError"]

(***************************************************************************)
(* Agents.  An agent is a record: its class, its name and the parameters   *)
(* its __init__ copies from the configuration struct.  No __init__ calls   *)
(* config.validate().                                                      *)
(***************************************************************************)
MACDCombinedAgent(c) ==
    [cls |-> "MACDCombinedAgent", name |-> "MACD Combined Agent",
     fast_period |-> c.fast_period, slow_period |-> c.slow_period,
     signal_period |-> c.signal_period]

RSICombinedAgent(c) ==
    [cls |-> "RSICombinedAgent", name |-> "RSI Combined Agent",
     period |-> c.period, overbought |-> c.overbought_threshold,
     oversold |-> c.oversold_threshold,
     extreme_overbought |-> c.extreme_overbought,
     extreme_oversold |-> c.extreme_oversold]

\* with_columns: the agent's copy of the frame after it attached its columns
WithColumns(df, names) == [df EXCEPT !.cols = @ \cup names]

(***************************************************************************)
(* MACD (src/agents/macd_combined_agent.py).  Values are fixed-point       *)
(* numbers with EMA_SCALE units per price unit.                            *)
(***************************************************************************)
EMA_SCALE == 10000

\* one step of the recurrence: y[t] = (1 - a) y[t-1] + a x[t] with
\* a = 2 / (span + 1)
ewm_step(prev, x, span) == ((span - 1) * prev + 2 * x) \div (span + 1)

RECURSIVE ewm_fold(_, _, _)
\* extends the averages acc of xs[1 .. Len(acc)] to all of xs; y[1] = x[1]
ewm_fold(xs, span, acc) ==
    IF Len(acc) = Len(xs) THEN acc
    ELSE LET t == Len(acc) + 1
         IN  ewm_fold(xs, span,
                      Append(acc, IF t = 1 THEN xs[1]
                                  ELSE ewm_step(acc[t - 1], xs[t], span)))

\* Series.ewm(span=span, adjust=False).mean()
ewm_mean(xs, span) == ewm_fold(xs, span, <<>>)

_calculate_macd(a, df) ==
    LET n == len(df)
        close == [i \in 1 .. n |-> EMA_SCALE * df.rows[i].Close]
        ema_fast == ewm_mean(close, a.fast_period)
        ema_slow == ewm_mean(close, a.slow_period)
        macd == [i \in 1 .. n |-> ema_fast[i] - ema_slow[i]]
        sig == ewm_mean(macd, a.signal_period)
    IN  [MACD |-> macd, MACD_Signal |-> sig,
         MACD_Histogram |-> [i \in 1 .. n |-> macd[i] - sig[i]]]

\* a crossover that needs the previous MACD strictly on the other side
MACD_crossover_strict(prev_macd, prev_signal, macd, sig) ==
    IF prev_macd < prev_signal /\ macd > sig THEN "BULLISH_CROSSOVER"
    ELSE IF prev_macd > prev_signal /\ macd < sig THEN "BEARISH_CROSSOVER"
    ELSE "None"

\* crossover of the latest bar: "BULLISH_CROSSOVER", "BEARISH_CROSSOVER" or None
MACD_crossover(prev_macd, prev_signal, macd, sig) ==
    IF prev_macd <= prev_signal /\ macd > sig THEN "BULLISH_CROSSOVER"
    ELSE IF prev_macd >= prev_signal /\ macd < sig THEN "BEARISH_CROSSOVER"
    ELSE "None"

_generate_standard_summary(a, m, n) ==
    LET p == IF n > 1 THEN n - 1 ELSE n
        crossover == MACD_crossover(m.MACD[p], m.MACD_Signal[p],
                                    m.MACD[n], m.MACD_Signal[n])
    IN  [latest_macd |-> m.MACD[n],
         latest_signal |-> m.MACD_Signal[n],
         latest_histogram |-> m.MACD_Histogram[n],
         trend |-> IF m.MACD[n] > m.MACD_Signal[n] THEN "BULLISH" ELSE "BEARISH",
         crossover |-> crossover,
         signal |-> IF crossover = "BULLISH_CROSSOVER" THEN "BUY"
                    ELSE IF crossover = "BEARISH_CROSSOVER" THEN "SELL"
                    ELSE "NEUTRAL"]

\* a season read from the sign of the latest histogram value alone
_identify_season_by_sign(prev2, prev1, current) ==
    IF current > 0 THEN "Autumn"
    ELSE IF current < 0 THEN "Spring"
    ELSE "Neutral"

\* a season read from the direction of the histogram alone
_identify_season_by_direction(prev2, prev1, current) ==
    IF prev1 > prev2 /\ current > prev1 THEN "Summer"
    ELSE IF prev1 < prev2 /\ current < prev1 THEN "Winter"
    ELSE "Neutral"

\* season of the three histogram values prev2, prev1, current
_identify_season(prev2, prev1, current) ==
    LET increasing == prev1 > prev2 /\ current > prev1
        decreasing == prev1 < prev2 /\ current < prev1
    IN  IF current < 0 /\ increasing THEN "Spring"
        ELSE IF current > 0 /\ increasing THEN "Summer"
        ELSE IF current > 0 /\ decreasing THEN "Autumn"
        ELSE IF current < 0 /\ decreasing THEN "Winter"
        ELSE "Neutral"

_generate_seasonal_summary(h) ==
    LET n == Len(h)
    IN  IF n < 3
        THEN [current_season |-> "Unknown", is_bullish_season |-> FALSE,
              error |-> "Insufficient data for seasonal analysis (need at least 3 points)"]
        ELSE LET current_season == _identify_season(h[n - 2], h[n - 1], h[n])
             IN  [current_season |-> current_season,
                  is_bullish_season |-> current_season \in {"Spring", "Summer"},
                  histogram_trend |-> IF h[n] > h[n - 1] THEN "Increasing"
                                      ELSE "Decreasing",
                  histogram_momentum |-> h[n] - h[n - 2]]

_generate_recommendation(standard, seasonal) ==
    LET signal == standard.signal
        bullish == seasonal.is_bullish_season
        strong == (signal = "BUY" /\ bullish) \/ (signal = "SELL" /\ ~bullish)
        weak == (signal = "BUY" /\ ~bullish) \/ (signal = "SELL" /\ bullish)
    IN  [action |-> signal,
         strength |-> IF strong THEN "STRONG" ELSE IF weak THEN "WEAK"
                      ELSE "MODERATE",
         confidence |-> IF strong THEN "HIGH" ELSE IF weak THEN "LOW"
                        ELSE "MEDIUM",
         confluence |-> strong]

MACD_columns == {"MACD", "MACD_Signal", "MACD_Histogram"}

\* MACDCombinedAgent.process: the dict it returns, or the exception it raises
MACD_process(a, df) ==
    IF "Close" \notin df.cols THEN [raised |-> TRUE, exc |-> KeyError("Close")]
    ELSE
    LET macd_df == _calculate_macd(a, df)
        standard_summary == _generate_standard_summary(a, macd_df, len(df))
        seasonal_summary == _generate_seasonal_summary(macd_df.MACD_Histogram)
    IN  IF len(df) = 0 THEN [raised |-> TRUE, exc |-> IndexError]
        ELSE [raised |-> FALSE,
              value |-> [data |-> WithColumns(df, MACD_columns),
                         summary |->
                            standard_summary @@
                            [seasonal_analysis |-> seasonal_summary,
                             recommendation |->
                                _generate_recommendation(standard_summary,
                                                         seasonal_summary)]]]

(***************************************************************************)
(* RSI (src/agents/rsi_combined_agent.py).  An RSI value is the exact      *)
(* rational n / d = 100 G / (G + L) of the window's summed gains G and     *)
(* losses L (100 - 100 / (1 + G / L), with G / 0 = inf for G > 0); d = 0   *)
(* stands for NaN, the 0 / 0 of a window with no gain and no loss.         *)
(***************************************************************************)
RSI_NaN == [n |-> 0, d |-> 0]
RSI_IsNaN(r) == r.d = 0

\* comparisons of an RSI value with a threshold, and of two RSI values
RSI_gt(r, k) == r.d > 0 /\ r.n > k * r.d
RSI_ge(r, k) == r.d > 0 /\ r.n >= k * r.d
RSI_lt(r, k) == r.d > 0 /\ r.n < k * r.d
RSI_le(r, k) == r.d > 0 /\ r.n <= k * r.d
RSI_gt2(r, q) == r.d > 0 /\ q.d > 0 /\ r.n * q.d > q.n * r.d

\* the RSI column: diff, gains and losses, rolling(window=period,
\* min_periods=1).mean() of each, rs and rsi
_calculate_rsi(a, df) ==
    LET n == len(df)
        close == Column(df, "Close")
        \* delta[1] is NaN: neither > 0 nor < 0, so gain and loss are 0
        gain == [i \in 1 .. n |->
                    IF i > 1 /\ close[i] > close[i - 1]
                    THEN close[i] - close[i - 1] ELSE 0]
        loss == [i \in 1 .. n |->
                    IF i > 1 /\ close[i] < close[i - 1]
                    THEN close[i - 1] - close[i] ELSE 0]
    IN  [i \in 1 .. n |->
            LET lo == Max2(1, i - a.period + 1)
                G == SumRange(gain, lo, i)
                L == SumRange(loss, lo, i)
            IN  IF G + L = 0 THEN RSI_NaN ELSE [n |-> 100 * G, d |-> G + L]]

_determine_zone(a, rsi_value) ==
    IF RSI_gt(rsi_value, a.extreme_overbought) THEN "Extreme Overbought"
    ELSE IF RSI_ge(rsi_value, a.overbought) THEN "Overbought"
    ELSE IF RSI_lt(rsi_value, a.extreme_oversold) THEN "Extreme Oversold"
    ELSE IF RSI_le(rsi_value, a.oversold) THEN "Oversold"
    ELSE "Neutral"

\* "Oversold" in zone / "Overbought" in zone (substring tests)
InOversold(zone) == zone \in {"Oversold", "Extreme Oversold"}
InOverbought(zone) == zone \in {"Overbought", "Extreme Overbought"}

\* a signal that tries the two SELL transitions before the two BUY ones
RSI_generate_signal_sell_first(a, rsi, rsi_value, zone) ==
    LET prev_rsi == rsi[Len(rsi) - 1]
    IN  IF Len(rsi) >= 2 /\ RSI_lt(prev_rsi, a.overbought)
           /\ RSI_ge(rsi_value, a.overbought)
        THEN "SELL"
        ELSE IF Len(rsi) >= 2 /\ RSI_gt(rsi_value, a.extreme_overbought)
        THEN "SELL"
        ELSE IF InOversold(zone) THEN "BUY"
        ELSE IF InOverbought(zone) THEN "SELL"
        ELSE IF Len(rsi) >= 2 /\ RSI_le(prev_rsi, a.oversold)
                /\ RSI_gt(rsi_value, a.oversold)
        THEN "BUY"
        ELSE "NEUTRAL"

RSI_generate_signal(a, rsi, rsi_value, zone) ==
    IF Len(rsi) < 2
    THEN IF InOversold(zone) THEN "BUY"
         ELSE IF InOverbought(zone) THEN "SELL" ELSE "NEUTRAL"
    ELSE LET prev_rsi == rsi[Len(rsi) - 1]
         IN  IF RSI_le(prev_rsi, a.oversold) /\ RSI_gt(rsi_value, a.oversold)
             THEN "BUY"
             ELSE IF RSI_lt(rsi_value, a.extreme_oversold) THEN "BUY"
             ELSE IF RSI_lt(prev_rsi, a.overbought)
                     /\ RSI_ge(rsi_value, a.overbought)
             THEN "SELL"
             ELSE IF RSI_gt(rsi_value, a.extreme_overbought) THEN "SELL"
             ELSE IF zone = "Extreme Oversold" THEN "BUY"
             ELSE IF zone = "Extreme Overbought" THEN "SELL"
             ELSE IF InOversold(zone) THEN "BUY"
             ELSE IF InOverbought(zone) THEN "SELL"
             ELSE "NEUTRAL"

\* the literal threshold of the orchestrator-compatibility flag
RSI_ABOVE_90 == 90

\* is_above_90 = rsi_value > 90
is_above_90_of(rsi_value) == RSI_gt(rsi_value, RSI_ABOVE_90)

RSI_generate_comprehensive_summary(a, rsi) ==
    LET n == Len(rsi)
        rsi_series == SelectSeq(rsi, LAMBDA r : ~RSI_IsNaN(r))
    IN  IF Len(rsi_series) = 0
        THEN [error |-> "Unable to calculate RSI - no valid data",
              signal |-> "NEUTRAL"]
        ELSE LET rsi_value == rsi[n]
                 zone == _determine_zone(a, rsi_value)
                 k == Len(rsi_series)
             IN  [rsi_value |-> rsi_value,
                  zone |-> zone,
                  signal |-> RSI_generate_signal(a, rsi, rsi_value, zone),
                  rsi_trend |->
                     IF k < 2 THEN "Unknown"
                     ELSE IF RSI_gt2(rsi_series[k], rsi_series[k - 1])
                          THEN "Rising" ELSE "Falling",
                  extreme_levels |->
                     [is_above_extreme_overbought |->
                          RSI_gt(rsi_value, a.extreme_overbought),
                      is_below_extreme_oversold |->
                          RSI_lt(rsi_value, a.extreme_oversold),
                      is_above_90 |-> is_above_90_of(rsi_value),
                      extreme_overbought_threshold |-> a.extreme_overbought,
                      extreme_oversold_threshold |-> a.extreme_oversold]]

\* RSICombinedAgent.process
RSI_process(a, df) ==
    IF "Close" \notin df.cols THEN [raised |-> TRUE, exc |-> KeyError("Close")]
    ELSE LET rsi == _calculate_rsi(a, df)
         IN  [raised |-> FALSE,
              value |-> [data |-> WithColumns(df, {"RSI"}),
                         summary |-> RSI_generate_comprehensive_summary(a, rsi)]]

(***************************************************************************)
(* Simple moving averages.  rolling(window=w).mean() is NaN until the      *)
(* window is full; the model keeps the window's sum, the mean being        *)
(* sum / w.                                                                *)
(***************************************************************************)
\* sum of the w values ending at row i, NaN while i < w
RollingSum(xs, w, i) == IF i < w THEN NaN ELSE SumRange(xs, i - w + 1, i)

\* (short SMA - long SMA) * short * long at row i, NaN while either is NaN
SMA_Delta(close, short, long, i) ==
    LET ss == RollingSum(close, short, i)
        sl == RollingSum(close, long, i)
    IN  IF IsNaN(ss) \/ IsNaN(sl) THEN NaN ELSE long * ss - short * sl

\* the column SMA_Delta of rows 1..n
SMA_Delta_column(close, short, long) ==
    [i \in 1 .. Len(close) |-> SMA_Delta(close, short, long, i)]

\* Series.dropna()
dropna(xs) == SelectSeq(xs, LAMBDA x : ~IsNaN(x))

(***************************************************************************)
(* SMADeltaAgent (src/agents/sma_delta_agent.py), a SubAgent               *)
(***************************************************************************)
SMADeltaAgent(short_period, long_period) ==
    [cls |-> "SMADeltaAgent", name |-> "SMA Delta Agent",
     short_period |-> short_period, long_period |-> long_period]

\* trend label and favorability of the 2 x 2 grid positive x rising
SMADelta_trend(is_positive, is_rising) ==
    IF is_positive /\ is_rising
    THEN [trend |-> "Positive and Rising", is_favorable |-> TRUE]
    ELSE IF ~is_positive /\ is_rising
    THEN [trend |-> "Negative and Rising", is_favorable |-> TRUE]
    ELSE IF is_positive /\ ~is_rising
    THEN [trend |-> "Positive and Falling", is_favorable |-> FALSE]
    ELSE [trend |-> "Negative and Falling", is_favorable |-> FALSE]

SMADelta_process(a, df) ==
    IF "Close" \notin df.cols THEN [raised |-> TRUE, exc |-> KeyError("Close")]
    ELSE
    LET delta_series ==
            dropna(SMA_Delta_column(Column(df, "Close"),
                                    a.short_period, a.long_period))
        k == Len(delta_series)
    IN  IF k < 2
        THEN [raised |-> FALSE,
              value |-> [sma_delta |-> None,
                         error |-> "Insufficient data (need at least long_period monthly points)"]]
        ELSE LET current_delta == delta_series[k]
                 previous_delta == delta_series[k - 1]
                 is_rising == current_delta > previous_delta
                 is_positive == current_delta > 0
                 t == SMADelta_trend(is_positive, is_rising)
             IN  [raised |-> FALSE,
                  value |-> [sma_delta |-> current_delta,
                             sma_delta_trend |-> t.trend,
                             is_delta_rising |-> is_rising,
                             is_delta_positive |-> is_positive,
                             is_favorable_for_buy |-> t.is_favorable,
                             is_rising_last_2_months |->
                                 delta_series[k] > delta_series[k - 1]]]

(***************************************************************************)
(* Supertrend (src/agents/supertrend_agent.py, a SubAgent, and             *)
(* src/agents/supertrend_combined_agent.py, a UnifiedAgent).  Band and     *)
(* ATR values are kept multiplied by 2 * atr_length, which makes           *)
(* (High + Low) / 2 +- multiplier * sum(TR) / atr_length an integer; a     *)
(* close is multiplied by the same factor before it meets a band.          *)
(***************************************************************************)
SupertrendAgent(atr_length, multiplier) ==
    [cls |-> "SupertrendAgent", name |-> "Supertrend Agent",
     atr_length |-> atr_length, multiplier |-> multiplier]

SupertrendCombinedAgent(c) ==
    [cls |-> "SupertrendCombinedAgent", name |-> "Supertrend Combined Agent",
     atr_length |-> c.atr_length, multiplier |-> c.atr_multiplier]

\* Python min(a, b) / max(a, b): a unless b compares below / above it
PyMin(a, b) == IF Lt(b, a) THEN b ELSE a
PyMax(a, b) == IF Gt(b, a) THEN b ELSE a

\* True Range of row i; the row-wise max skips the NaN of the first row
TrueRange(df, i) ==
    LET r == df.rows[i]
    IN  IF i = 1 THEN r.High - r.Low
        ELSE LET prev_close == df.rows[i - 1].Close
             IN  Max2(r.High - r.Low,
                      Max2(Abs(r.High - prev_close), Abs(r.Low - prev_close)))

\* the column TR
TR_column(df) == [j \in 1 .. len(df) |-> TrueRange(df, j)]

\* ATR * atr_length at row i (NaN until the window is full)
ATR_sum(tr, atr_length, i) == RollingSum(tr, atr_length, i)

\* basic bands of row i
Basic_Upper(df, a, tr, i) ==
    LET s == ATR_sum(tr, a.atr_length, i)
    IN  IF IsNaN(s) THEN NaN
        ELSE a.atr_length * (df.rows[i].High + df.rows[i].Low)
             + 2 * a.multiplier * s

Basic_Lower(df, a, tr, i) ==
    LET s == ATR_sum(tr, a.atr_length, i)
    IN  IF IsNaN(s) THEN NaN
        ELSE a.atr_length * (df.rows[i].High + df.rows[i].Low)
             - 2 * a.multiplier * s

\* a close in band units
BandUnits(a, close) == 2 * a.atr_length * close

\* an upper band that never moves up, whatever the previous close
Ratchet_Upper_always(basic, prev_upper, prev_close) == PyMin(basic, prev_upper)

\* final upper band of row i given the previous row's final band and close
Ratchet_Upper(basic, prev_upper, prev_close) ==
    IF Le(prev_close, prev_upper) THEN PyMin(basic, prev_upper) ELSE basic

\* final lower band of row i
Ratchet_Lower(basic, prev_lower, prev_close) ==
    IF Ge(prev_close, prev_lower) THEN PyMax(basic, prev_lower) ELSE basic

\* signal of row i from its close, the previous row's final bands and signal
Supertrend_signal_of(close, prev_upper, prev_lower, prev_signal) ==
    IF Gt(close, prev_upper) THEN "Green"
    ELSE IF Lt(close, prev_lower) THEN "Red"
    ELSE IF prev_signal = "Green" THEN "Green" ELSE "Red"

\* row i of Upper_Band, Lower_Band, Supertrend and Supertrend_Signal after
\* iteration i of the loop, given row i - 1; skip_nan is the combined agent's
\* "if pd.isna(ATR[i]): continue"
Supertrend_row(df, a, skip_nan, tr, prev, i) ==
    LET bu == Basic_Upper(df, a, tr, i)
        bl == Basic_Lower(df, a, tr, i)
        initial == [Upper_Band |-> bu, Lower_Band |-> bl, Supertrend |-> 0,
                    Supertrend_Signal |-> "Red"]
    IN  IF i = 1 \/ (skip_nan /\ IsNaN(ATR_sum(tr, a.atr_length, i)))
        THEN initial
        ELSE
        LET close_before == BandUnits(a, df.rows[i - 1].Close)
            close_now == BandUnits(a, df.rows[i].Close)
            upper == Ratchet_Upper(bu, prev.Upper_Band, close_before)
            lower == Ratchet_Lower(bl, prev.Lower_Band, close_before)
            signal == Supertrend_signal_of(close_now, prev.Upper_Band,
                                           prev.Lower_Band,
                                           prev.Supertrend_Signal)
        IN  [Upper_Band |-> upper, Lower_Band |-> lower,
             Supertrend |-> IF signal = "Green" THEN lower ELSE upper,
             Supertrend_Signal |-> signal]

RECURSIVE Supertrend_rows(_, _, _, _, _)
\* the loop "for i in range(1, len(df))": extends the rows acc to all of df
Supertrend_rows(df, a, skip_nan, tr, acc) ==
    IF Len(acc) = len(df) THEN acc
    ELSE LET i == Len(acc) + 1
         IN  Supertrend_rows(df, a, skip_nan, tr,
                 Append(acc, Supertrend_row(df, a, skip_nan, tr,
                                            IF i = 1 THEN None ELSE acc[i - 1],
                                            i)))

\* SupertrendAgent.calculate_supertrend
calculate_supertrend(a, df) ==
    Supertrend_rows(df, a, FALSE, TR_column(df), <<>>)

\* a Supertrend whose ATR is the true range of the bar alone (no warm-up)
_calculate_supertrend_no_warmup(a, df) ==
    Supertrend_rows(df, [a EXCEPT !.atr_length = 1], TRUE, TR_column(df), <<>>)

\* SupertrendCombinedAgent._calculate_supertrend
_calculate_supertrend(a, df) ==
    Supertrend_rows(df, a, TRUE, TR_column(df), <<>>)

\* number of i in 2..Len(signals) with signals[i] # signals[i-1], over the
\* last 5 signals
signal_changes_last_5(rows) ==
    LET n == Len(rows)
        lo == Max2(1, n - 4)
    IN  Cardinality({i \in (lo + 1) .. n :
                        rows[i].Supertrend_Signal # rows[i - 1].Supertrend_Signal})

\* first of High, Low, Close the frame lacks, in the order the code reads them
Supertrend_missing(df) ==
    IF "High" \notin df.cols THEN "High"
    ELSE IF "Low" \notin df.cols THEN "Low"
    ELSE IF "Close" \notin df.cols THEN "Close"
    ELSE "None"

\* SupertrendAgent.process
Supertrend_process(a, df) ==
    IF Supertrend_missing(df) # "None"
    THEN [raised |-> TRUE, exc |-> KeyError(Supertrend_missing(df))]
    ELSE IF len(df) = 0 THEN [raised |-> TRUE, exc |-> IndexError]
    ELSE IF df.rows[len(df)].Close = 0
    THEN [raised |-> TRUE, exc |-> [exc |-> "ZeroDivisionError"]]
    ELSE
    LET rows == calculate_supertrend(a, df)
        latest == rows[len(df)]
        changes == signal_changes_last_5(rows)
    IN  [raised |-> FALSE,
         value |-> [supertrend_signal |-> latest.Supertrend_Signal,
                    is_green |-> latest.Supertrend_Signal = "Green",
                    supertrend_value |-> latest.Supertrend,
                    signal_changes_last_5 |-> changes,
                    trend_stability |-> IF changes <= 1 THEN "Stable"
                                        ELSE "Volatile"]]

\* SupertrendCombinedAgent._generate_signal
Supertrend_generate_signal(is_green) == IF is_green THEN "BUY" ELSE "SELL"

\* trend stability of the combined agent's summary
Supertrend_stability(changes) ==
    IF changes = 0 THEN "Very Stable"
    ELSE IF changes = 1 THEN "Stable"
    ELSE IF changes = 2 THEN "Moderate"
    ELSE "Volatile"

RECURSIVE trend_duration(_, _)
\* length of the run of equal signals that ends at row n
trend_duration(rows, n) ==
    IF n = 1 THEN 1
    ELSE IF rows[n - 1].Supertrend_Signal = rows[n].Supertrend_Signal
         THEN 1 + trend_duration(rows, n - 1)
         ELSE 1

Supertrend_columns == {"ATR", "Upper_Band", "Lower_Band", "Supertrend",
                       "Supertrend_Signal", "Supertrend_Direction"}

\* SupertrendCombinedAgent._generate_comprehensive_summary
Supertrend_generate_comprehensive_summary(a, df) ==
    LET rows == _calculate_supertrend(a, df)
        latest == rows[len(df)]
        is_green == latest.Supertrend_Signal = "Green"
        changes == signal_changes_last_5(rows)
    IN  [supertrend_signal |-> latest.Supertrend_Signal,
         is_green |-> is_green,
         signal |-> Supertrend_generate_signal(is_green),
         supertrend_value |-> latest.Supertrend,
         trend_analysis |-> [stability |-> Supertrend_stability(changes),
                             duration |-> trend_duration(rows, len(df)),
                             signal_changes_last_5 |-> changes]]

\* SupertrendCombinedAgent.process
SupertrendCombined_process(a, df) ==
    IF Supertrend_missing(df) # "None"
    THEN [raised |-> TRUE, exc |-> KeyError(Supertrend_missing(df))]
    ELSE IF len(df) = 0 THEN [raised |-> TRUE, exc |-> IndexError]
    ELSE [raised |-> FALSE,
          value |-> [data |-> WithColumns(df, Supertrend_columns),
                     summary |-> Supertrend_generate_comprehensive_summary(a, df)]]

(***************************************************************************)
(* SMADeltaCombinedAgent (src/agents/sma_delta_combined_agent.py).         *)
(***************************************************************************)
SMADeltaCombinedAgent(c) ==
    [cls |-> "SMADeltaCombinedAgent", name |-> "SMA Delta Combined Agent",
     short_period |-> c.short_lookback_months,
     long_period |-> c.long_lookback_months]

\* trend description and strength of the combined agent
SMADeltaCombined_trend(is_positive, is_rising) ==
    IF is_positive /\ is_rising
    THEN [trend |-> "Positive and Rising", trend_strength |-> "STRONGLY_BULLISH"]
    ELSE IF ~is_positive /\ is_rising
    THEN [trend |-> "Negative but Rising", trend_strength |-> "BULLISH"]
    ELSE IF is_positive /\ ~is_rising
    THEN [trend |-> "Positive but Falling", trend_strength |-> "BEARISH"]
    ELSE [trend |-> "Negative and Falling", trend_strength |-> "STRONGLY_BEARISH"]

\* SMADeltaCombinedAgent._generate_signal
SMADelta_generate_signal(is_rising) == IF is_rising THEN "BUY" ELSE "SELL"

RECURSIVE consecutive_from(_, _, _)
\* the loop "for i in range(len(delta_series) - 2, -1, -1)" from index i
\* (0-based) on: one more for every step in the direction, stop at the first
\* step against it; index 0 is passed over
consecutive_from(ds, rising, i) ==
    IF i < 1 THEN 0
    ELSE LET curr == ds[i + 1]
             prev == ds[i]
         IN  IF (rising /\ curr > prev) \/ (~rising /\ curr < prev)
             THEN 1 + consecutive_from(ds, rising, i - 1)
             ELSE 0

consecutive_direction(ds, rising) ==
    1 + consecutive_from(ds, rising, Len(ds) - 2)

SMADelta_columns(a) == {"SMA_short", "SMA_long", "SMA_Delta",
                        "SMA_Delta_Change", "SMA_Delta_Percent"}

\* SMADeltaCombinedAgent._generate_comprehensive_summary
SMADelta_generate_comprehensive_summary(a, df) ==
    LET close == Column(df, "Close")
        delta == SMA_Delta_column(close, a.short_period, a.long_period)
        delta_series == dropna(delta)
        n == Len(delta)
    IN  IF Len(delta_series) < 2
        THEN [error |-> "Insufficient data", signal |-> "NEUTRAL",
              sma_delta |-> None]
        ELSE
        LET current_delta == delta[n]
            previous_delta == delta[n - 1]
            is_rising == Gt(current_delta, previous_delta)
            is_positive == Gt(current_delta, 0)
            t == SMADeltaCombined_trend(is_positive, is_rising)
            k == Len(delta_series)
        IN  [sma_delta |-> current_delta,
             sma_delta_trend |-> t.trend,
             trend_strength |-> t.trend_strength,
             is_delta_rising |-> is_rising,
             is_delta_positive |-> is_positive,
             is_favorable_for_buy |-> is_rising,
             is_rising_last_2_periods |->
                 delta_series[k] > delta_series[k - 1],
             signal |-> SMADelta_generate_signal(is_rising),
             trend_analysis |->
                 [direction |-> IF is_rising THEN "Rising" ELSE "Falling",
                  consecutive_periods |->
                      consecutive_direction(delta_series, is_rising)]]

\* SMADeltaCombinedAgent.process
SMADeltaCombined_process(a, df) ==
    IF "Close" \notin df.cols
    THEN [raised |-> TRUE, exc |-> KeyError("Close")]
    ELSE [raised |-> FALSE,
          value |-> [data |-> WithColumns(df, SMADelta_columns(a)),
                     summary |-> SMADelta_generate_comprehensive_summary(a, df)]]

(***************************************************************************)
(* SMACombinedAgent (src/agents/sma_combined_agent.py), built from an      *)
(* SMAConfig: periods = sorted([short_period, long_period]).  A moving     *)
(* average is the pair (rolling sum, period); two averages are compared    *)
(* by cross-multiplication.                                                *)
(***************************************************************************)
SMACombinedAgent(c) ==
    [cls |-> "SMACombinedAgent", name |-> "SMA Combined Agent",
     short_period |-> Min2(c.short_period, c.long_period),
     long_period |-> Max2(c.short_period, c.long_period)]

\* round(float(latest[sma_col]), 2) in hundredths of the price unit, the
\* rolling sum being in ticks (values >= 0)
Round2(sum, period) ==
    (200 * sum + period * TicksPerUnit) \div (2 * period * TicksPerUnit)

\* price position against one SMA of the latest row: the unrounded latest
\* price (in ticks) against the rounded SMA
price_position(latest_price, sum, period) ==
    IF IsNaN(sum) THEN "N/A"
    ELSE IF 100 * latest_price > TicksPerUnit * Round2(sum, period)
    THEN "ABOVE"
    ELSE "BELOW"

\* a crossover detection that looks at the latest bar only
_detect_crossover_latest_only(a, df) ==
    LET close == Column(df, "Close")
        n == len(df)
        cs == RollingSum(close, a.short_period, n)
        cl == RollingSum(close, a.long_period, n)
        curr == a.long_period * cs - a.short_period * cl
    IN  IF n < 2 \/ IsNaN(cs) \/ IsNaN(cl)
        THEN [detected |-> FALSE, pattern |-> "None", current_state |-> "None"]
        ELSE IF curr > 0
        THEN [detected |-> TRUE, pattern |-> "GOLDEN_CROSS",
              current_state |-> "None"]
        ELSE IF curr < 0
        THEN [detected |-> TRUE, pattern |-> "DEATH_CROSS",
              current_state |-> "None"]
        ELSE [detected |-> FALSE, pattern |-> "None",
              current_state |-> "BEARISH"]

\* SMACombinedAgent._detect_crossover
_detect_crossover(a, df) ==
    LET close == Column(df, "Close")
        n == len(df)
        cs == RollingSum(close, a.short_period, n)
        cl == RollingSum(close, a.long_period, n)
        ps == RollingSum(close, a.short_period, n - 1)
        pl == RollingSum(close, a.long_period, n - 1)
        curr == a.long_period * cs - a.short_period * cl
        prev == a.long_period * ps - a.short_period * pl
    IN  IF n < 2 \/ IsNaN(cs) \/ IsNaN(cl) \/ IsNaN(ps) \/ IsNaN(pl)
        THEN [detected |-> FALSE, pattern |-> "None", current_state |-> "None"]
        ELSE IF prev <= 0 /\ curr > 0
        THEN [detected |-> TRUE, pattern |-> "GOLDEN_CROSS",
              current_state |-> "None"]
        ELSE IF prev >= 0 /\ curr < 0
        THEN [detected |-> TRUE, pattern |-> "DEATH_CROSS",
              current_state |-> "None"]
        ELSE IF curr > 0
        THEN [detected |-> FALSE, pattern |-> "None",
              current_state |-> "BULLISH"]
        ELSE [detected |-> FALSE, pattern |-> "None",
              current_state |-> "BEARISH"]

\* SMACombinedAgent._generate_signal
SMA_generate_signal(crossover, above_count, below_count) ==
    IF crossover.detected /\ crossover.pattern = "GOLDEN_CROSS" THEN "BUY"
    ELSE IF crossover.detected /\ crossover.pattern = "DEATH_CROSS" THEN "SELL"
    ELSE LET total_smas == above_count + below_count
         IN  IF total_smas > 0 /\ above_count = total_smas THEN "BUY"
             ELSE IF total_smas > 0 /\ below_count = total_smas THEN "SELL"
             ELSE "NEUTRAL"

\* the periods the agent computes, without repetition
SMA_periods(a) == {a.short_period, a.long_period}

\* SMACombinedAgent._generate_comprehensive_summary
SMA_generate_comprehensive_summary(a, df) ==
    LET close == Column(df, "Close")
        n == len(df)
        latest_price == close[n]
        position == [p \in SMA_periods(a) |->
                        price_position(latest_price, RollingSum(close, p, n), p)]
        above_count == Cardinality({p \in SMA_periods(a) : position[p] = "ABOVE"})
        below_count == Cardinality({p \in SMA_periods(a) : position[p] = "BELOW"})
        crossover == _detect_crossover(a, df)
    IN  [latest_price |-> latest_price,
         price_position |-> position,
         crossover |-> crossover,
         cross_pattern |-> crossover.pattern,
         signal |-> SMA_generate_signal(crossover, above_count, below_count),
         bullish_factors |-> above_count,
         bearish_factors |-> below_count]

\* SMACombinedAgent.process
SMACombined_process(a, df) ==
    IF "Close" \notin df.cols
    THEN [raised |-> TRUE, exc |-> KeyError("Close")]
    ELSE IF len(df) = 0 THEN [raised |-> TRUE, exc |-> IndexError]
    ELSE [raised |-> FALSE,
          value |-> [data |-> WithColumns(df, {"SMA_short", "SMA_long"}),
                     summary |-> SMA_generate_comprehensive_summary(a, df)]]

(***************************************************************************)
(* UnifiedAgent (src/agents/unified_agent.py) and SubAgent                 *)
(* (src/agents/sub_agent.py): validation, run and the result dictionary.   *)
(***************************************************************************)
\* get_minimum_rows of each UnifiedAgent subclass
MACD_get_minimum_rows(a) == a.slow_period + a.signal_period
RSI_get_minimum_rows(a) == a.period + 1
SMA_get_minimum_rows(a) == a.long_period + 1
SMADelta_get_minimum_rows(a) == a.long_period + 1
Supertrend_get_minimum_rows(a) == a.atr_length + 2

get_minimum_rows(a) ==
    CASE a.cls = "MACDCombinedAgent" -> MACD_get_minimum_rows(a)
      [] a.cls = "RSICombinedAgent" -> RSI_get_minimum_rows(a)
      [] a.cls = "SMACombinedAgent" -> SMA_get_minimum_rows(a)
      [] a.cls = "SMADeltaCombinedAgent" -> SMADelta_get_minimum_rows(a)
      [] a.cls = "SupertrendCombinedAgent" -> Supertrend_get_minimum_rows(a)

\* process() of each agent class
process(a, df) ==
    CASE a.cls = "MACDCombinedAgent" -> MACD_process(a, df)
      [] a.cls = "RSICombinedAgent" -> RSI_process(a, df)
      [] a.cls = "SMACombinedAgent" -> SMACombined_process(a, df)
      [] a.cls = "SMADeltaCombinedAgent" -> SMADeltaCombined_process(a, df)
      [] a.cls = "SupertrendCombinedAgent" -> SupertrendCombined_process(a, df)
      [] a.cls = "SMADeltaAgent" -> SMADelta_process(a, df)
      [] a.cls = "SupertrendAgent" -> Supertrend_process(a, df)

IsUnified(a) == a.cls \in {"MACDCombinedAgent", "RSICombinedAgent",
                           "SMACombinedAgent", "SMADeltaCombinedAgent",
                           "SupertrendCombinedAgent"}

required_columns == {"Open", "High", "Low", "Close"}

\* empty-frame test of _validate_input
IsEmptyInput(df) == df = None \/ empty(df)

\* missing-columns test of _validate_input
MissingColumns(df) == required_columns \ df.cols

\* row-count test of _validate_input
IsShort(a, df) == len(df) < get_minimum_rows(a)

\* _validate_input with the row count tested before the columns
_validate_input_rows_first(a, df) ==
    IF IsEmptyInput(df) THEN EmptyDataFrameError(a.name)
    ELSE IF IsShort(a, df)
    THEN InsufficientDataError(get_minimum_rows(a), len(df), a.name)
    ELSE IF MissingColumns(df) # {}
    THEN MissingColumnsError(MissingColumns(df), a.name)
    ELSE None

\* UnifiedAgent._validate_input: the exception it raises, or None
_validate_input(a, df) ==
    IF IsEmptyInput(df) THEN EmptyDataFrameError(a.name)
    ELSE IF MissingColumns(df) # {}
    THEN MissingColumnsError(MissingColumns(df), a.name)
    ELSE IF IsShort(a, df)
    THEN InsufficientDataError(get_minimum_rows(a), len(df), a.name)
    ELSE None

\* str(e): the exception's message, everything but its class
str(e) == [k \in DOMAIN e \ {"exc"} |-> e[k]]

\* f"{type(e).__name__}: {str(e)}"
error_msg(e) == [type_name |-> e.exc, message |-> str(e)]

\* dict.get(key) with the default None
dict_get(d, key) == IF key \in DOMAIN d THEN d[key] ELSE None

\* a completed result that loses the summary process() returned
CompletedResult_without_summary(a, result_dict) ==
    [agent |-> a.name, status |-> "completed",
     data |-> dict_get(result_dict, "data"),
     output |-> dict_get(result_dict, "output"),
     summary |-> None,
     error |-> None]

\* AgentResult(status="completed", ...).to_dict()
CompletedResult(a, result_dict) ==
    [agent |-> a.name, status |-> "completed",
     data |-> dict_get(result_dict, "data"),
     output |-> dict_get(result_dict, "output"),
     summary |-> dict_get(result_dict, "summary"),
     error |-> None]

\* AgentResult(status="failed", ...).to_dict()
FailedResult(a, e) ==
    [agent |-> a.name, status |-> "failed", data |-> None, output |-> None,
     summary |-> None, error |-> error_msg(e)]

\* UnifiedAgent.run followed by to_dict()
UnifiedAgent_run(a, df) ==
    LET invalid == _validate_input(a, df)
    IN  IF invalid # None THEN FailedResult(a, invalid)
        ELSE LET r == process(a, df)
             IN  IF r.raised THEN FailedResult(a, r.exc)
                 ELSE CompletedResult(a, r.value)

\* SubAgent.run: df.copy() on None raises AttributeError inside the try
SubAgent_run(a, df) ==
    LET r == IF df = None THEN [raised |-> TRUE, exc |-> AttributeError]
             ELSE process(a, df)
    IN  IF r.raised
        THEN [agent |-> a.name, status |-> "failed", output |-> None,
              error |-> str(r.exc)]
        ELSE [agent |-> a.name, status |-> "completed", output |-> r.value,
              error |-> None]

\* agent.run(df) as the orchestrator stores it in results
AgentRun(a, df) ==
    IF IsUnified(a) THEN UnifiedAgent_run(a, df) ELSE SubAgent_run(a, df)

(***************************************************************************)
(* OrchestratorAgent (src/agents/orchestrator_agent.py).                   *)
(***************************************************************************)
\* rows of df, in order, that fall in month m
RowsOfMonth(df, m) == SelectSeq(df.rows, LAMBDA r : r.month = m)

RECURSIVE SeqMax(_, _)
SeqMax(rows, field) ==
    IF Len(rows) = 1 THEN rows[1][field]
    ELSE Max2(rows[1][field], SeqMax(Tail(rows), field))

RECURSIVE SeqMin(_, _)
SeqMin(rows, field) ==
    IF Len(rows) = 1 THEN rows[1][field]
    ELSE Min2(rows[1][field], SeqMin(Tail(rows), field))

RECURSIVE SeqSum(_, _)
SeqSum(rows, field) ==
    IF Len(rows) = 0 THEN 0 ELSE rows[1][field] + SeqSum(Tail(rows), field)

\* one row of resample('MS'): first Open, max High, min Low, last Close,
\* summed Volume; a month without rows gives NaN prices and Volume 0
MonthlyBar(df, m) ==
    LET rs == RowsOfMonth(df, m)
    IN  IF Len(rs) = 0 THEN Bar(m, NaN, NaN, NaN, NaN, 0)
        ELSE Bar(m, rs[1].Open, SeqMax(rs, "High"), SeqMin(rs, "Low"),
                 rs[Len(rs)].Close, SeqSum(rs, "Volume"))

\* first step of _resample_to_monthly that raises, or None
resample_error(daily) ==
    IF daily = None THEN AttributeError
    ELSE IF "Open" \notin daily.cols THEN KeyError("Open")
    ELSE IF "Date" \notin daily.cols /\ daily.index # "DatetimeIndex"
    THEN TypeError
    ELSE IF "High" \notin daily.cols THEN KeyError("High")
    ELSE IF "Low" \notin daily.cols THEN KeyError("Low")
    ELSE IF "Close" \notin daily.cols THEN KeyError("Close")
    ELSE IF "Volume" \notin daily.cols THEN KeyError("Volume")
    ELSE None

\* OrchestratorAgent._resample_to_monthly
_resample_to_monthly(daily) ==
    IF resample_error(daily) # None
    THEN [raised |-> TRUE, exc |-> resample_error(daily)]
    ELSE LET months == {daily.rows[i].month : i \in 1 .. len(daily)}
             first == CHOOSE m \in months : \A k \in months : m <= k
             last == CHOOSE m \in months : \A k \in months : m >= k
         IN  [raised |-> FALSE,
              value |->
                DataFrame(OHLCV, "RangeIndex",
                          IF months = {} THEN <<>>
                          ELSE [i \in 1 .. (last - first + 1) |->
                                    MonthlyBar(daily, first + i - 1)])]

\* the four sub-agents of OrchestratorAgent.__init__
DEFAULT_MACD_FAST == 12
DEFAULT_MACD_SLOW == 26
DEFAULT_MACD_SIGNAL == 9
DEFAULT_RSI_PERIOD == 14
DEFAULT_RSI_OVERBOUGHT == 70
DEFAULT_RSI_OVERSOLD == 30
DEFAULT_RSI_EXTREME_OVERBOUGHT == 90
DEFAULT_RSI_EXTREME_OVERSOLD == 10
ORCH_SMA_SHORT == 6
ORCH_SMA_LONG == 12
ORCH_ATR_LENGTH == 10
ORCH_MULTIPLIER == 3

AgentTypes == <<"MACD", "RSI", "SMA", "Supertrend">>

sub_agents ==
    [MACD |-> MACDCombinedAgent(MACDConfig(DEFAULT_MACD_FAST, DEFAULT_MACD_SLOW,
                                           DEFAULT_MACD_SIGNAL)),
     RSI |-> RSICombinedAgent(RSIConfig(DEFAULT_RSI_PERIOD,
                                        DEFAULT_RSI_OVERBOUGHT,
                                        DEFAULT_RSI_OVERSOLD,
                                        DEFAULT_RSI_EXTREME_OVERBOUGHT,
                                        DEFAULT_RSI_EXTREME_OVERSOLD)),
     SMA |-> SMADeltaAgent(ORCH_SMA_SHORT, ORCH_SMA_LONG),
     Supertrend |-> SupertrendAgent(ORCH_ATR_LENGTH, ORCH_MULTIPLIER)]

\* dict.get(key, default)
get_or(d, key, default) == IF key \in DOMAIN d THEN d[key] ELSE default

\* the dictionary with no key
EmptyDict == [k \in {} |-> None]

\* the dictionary {key: value} when present holds, {} otherwise
Entry(present, key, value) ==
    IF present THEN [k \in {key} |-> value] ELSE EmptyDict

IsCompleted(result) == result.status = "completed"

\* season read for condition 1: summary.seasonal_analysis, else output
macd_season(macd_result) ==
    IF "summary" \in DOMAIN macd_result
       /\ "seasonal_analysis" \in DOMAIN macd_result.summary
    THEN get_or(macd_result.summary.seasonal_analysis, "current_season",
                "Unknown")
    ELSE get_or(get_or(macd_result, "output", EmptyDict), "current_season",
                "Unknown")

BullishSeasons == {"Spring", "Summer"}

\* is_above_90 read for condition 2, with the default True of every .get
rsi_is_above_90(rsi_result) ==
    IF "summary" \in DOMAIN rsi_result
    THEN IF "extreme_levels" \in DOMAIN rsi_result.summary
         THEN get_or(rsi_result.summary.extreme_levels, "is_above_90", TRUE)
         ELSE get_or(rsi_result.summary, "is_above_90", TRUE)
    ELSE get_or(get_or(rsi_result, "output", EmptyDict), "is_above_90", TRUE)

\* condition 3 read from the sign of the delta instead of its direction
sma_is_positive(sma_result) ==
    get_or(sma_result.output, "is_delta_positive", FALSE)

\* is_favorable_for_buy read for condition 3
sma_is_favorable(sma_result) ==
    get_or(sma_result.output, "is_favorable_for_buy", FALSE)

\* is_green read for condition 4
supertrend_is_green(supertrend_result) ==
    get_or(supertrend_result.output, "is_green", FALSE)

\* the four conditions, each False unless its indicator completed
condition_1_macd_season(sub_agent_results) ==
    IsCompleted(sub_agent_results["MACD"])
    /\ macd_season(sub_agent_results["MACD"]) \in BullishSeasons

condition_2_rsi_check(sub_agent_results) ==
    IsCompleted(sub_agent_results["RSI"]) /\ ~rsi_is_above_90(sub_agent_results["RSI"])

condition_3_sma_delta(sub_agent_results) ==
    IsCompleted(sub_agent_results["SMA"]) /\ sma_is_favorable(sub_agent_results["SMA"])

condition_4_supertrend(sub_agent_results) ==
    IsCompleted(sub_agent_results["Supertrend"])
    /\ supertrend_is_green(sub_agent_results["Supertrend"])

\* sum(conditions.values())
count_true(conditions) ==
    Cardinality({k \in DOMAIN conditions : conditions[k]})

conditions_required == 2

\* a vote that needs more than conditions_required conditions
is_buy_signal_strict(conditions_met) == conditions_met > conditions_required

\* buy_signal = conditions_met >= 2
is_buy_signal(conditions_met) == conditions_met >= conditions_required

\* "BUY" if buy_signal else "HOLD/WAIT"
recommendation_of(buy_signal) == IF buy_signal THEN "BUY" ELSE "HOLD/WAIT"

\* OrchestratorAgent.evaluate_buy_signal
evaluate_buy_signal(sub_agent_results) ==
    LET conditions ==
            [condition_1_macd_season |-> condition_1_macd_season(sub_agent_results),
             condition_2_rsi_check |-> condition_2_rsi_check(sub_agent_results),
             condition_3_sma_delta |-> condition_3_sma_delta(sub_agent_results),
             condition_4_supertrend |-> condition_4_supertrend(sub_agent_results)]
        condition_details ==
            Entry(IsCompleted(sub_agent_results["MACD"]), "macd",
                  [condition_met |-> conditions.condition_1_macd_season])
            @@ Entry(IsCompleted(sub_agent_results["RSI"]), "rsi",
                     [condition_met |-> conditions.condition_2_rsi_check])
            @@ Entry(IsCompleted(sub_agent_results["SMA"]), "sma",
                     [condition_met |-> conditions.condition_3_sma_delta])
            @@ Entry(IsCompleted(sub_agent_results["Supertrend"]), "supertrend",
                     [condition_met |-> conditions.condition_4_supertrend])
        conditions_met == count_true(conditions)
        buy_signal == is_buy_signal(conditions_met)
    IN  [buy_signal |-> buy_signal,
         conditions_met |-> conditions_met,
         conditions_required |-> conditions_required,
         individual_conditions |-> conditions,
         condition_details |-> condition_details,
         recommendation |-> recommendation_of(buy_signal)]

(***************************************************************************)
(* Idle values: what the variables of the other state machine hold while   *)
(* one of them runs.                                                       *)
(***************************************************************************)
AgentKeys == {"MACD", "RSI", "SMA", "Supertrend"}

(***************************************************************************)
(* Tables.  A DataFrame is an object: heap maps the identity of each table *)
(* to its current value.  The caller's tables are "daily_df" and           *)
(* "monthly_df"; _resample_to_monthly works on "resample_copy" and builds  *)
(* "resampled"; the table a sub-agent's run() creates with df.copy() has   *)
(* the agent type as its identity.                                         *)
(***************************************************************************)
TableIds == {"daily_df", "monthly_df", "resample_copy", "resampled"}
            \cup AgentKeys

NoTables == [id \in TableIds |-> None]

\* columns process() assigns on the frame it is handed
derived_columns(a) ==
    CASE a.cls = "MACDCombinedAgent" -> MACD_columns
      [] a.cls = "RSICombinedAgent" -> {"RSI"}
      [] a.cls = "SMACombinedAgent" -> {"SMA_short", "SMA_long"}
      [] a.cls = "SMADeltaCombinedAgent" -> SMADelta_columns(a)
      [] a.cls = "SupertrendCombinedAgent" -> Supertrend_columns
      [] a.cls = "SMADeltaAgent" -> {"SMA_short", "SMA_long", "SMA_Delta"}
      [] a.cls = "SupertrendAgent" ->
            {"ATR", "HL_AVG", "Upper_Band", "Lower_Band", "Supertrend",
             "Supertrend_Signal"}

\* the frame process() was handed, as process() leaves it: the derived
\* columns are assigned in place; a KeyError of the first column read
\* comes before every assignment, except in SupertrendAgent.calculate_atr,
\* which assigns H-L before it reads Close
process_writes(a, df) ==
    CASE a.cls = "SMADeltaAgent" /\ "Close" \notin df.cols -> df
      [] a.cls = "SupertrendAgent" /\ Supertrend_missing(df) \in {"High", "Low"}
            -> df
      [] a.cls = "SupertrendAgent" /\ Supertrend_missing(df) = "Close"
            -> WithColumns(df, {"H-L"})
      [] OTHER -> WithColumns(df, derived_columns(a))

\* run() reaches its call of process(): a UnifiedAgent after
\* _validate_input, a SubAgent unless df.copy() raises on None
process_entered(a, df) ==
    IF IsUnified(a) THEN _validate_input(a, df) = None ELSE df # None

\* run() handing its own argument df to process()
run_target_shared(k, src) == src

\* the table run() hands to process(): df.copy(), a new table
run_target(k, src) == k

\* the table _resample_to_monthly works on: daily_df.copy(), a new table
resample_target(src) == "resample_copy"

\* df['Date'] = pd.to_datetime(df['Date']); df.set_index('Date', inplace=True)
resample_writes(df) ==
    IF "Date" \in df.cols
    THEN [df EXCEPT !.cols = @ \ {"Date"}, !.index = "DatetimeIndex"]
    ELSE df

OrchIdle ==
    /\ daily_df = None
    /\ monthly_df = None
    /\ mode = "idle"
    /\ status = "initialized"
    /\ pc = "idle"
    /\ monthly = None
    /\ fut = [k \in AgentKeys |-> "idle"]
    /\ fut_result = EmptyDict
    /\ results = EmptyDict
    /\ buy_evaluation = None
    /\ returned = None
    /\ agent_status = [k \in AgentKeys |-> "initialized"]
    /\ heap = NoTables
    /\ wrote = [k \in AgentKeys |-> "none"]

LegacyIdle ==
    /\ legacy_agents = <<>>
    /\ legacy_data = None
    /\ legacy_results = EmptyDict
    /\ legacy_pc = "idle"
    /\ consolidated = None

AgentIdle ==
    /\ config = None
    /\ validate_result = None
    /\ agent = None
    /\ agent_df = None
    /\ agent_pc = "idle"
    /\ process_calls = 0
    /\ agent_result = None

(***************************************************************************)
(* SpecConfig: a configuration struct is constructed with arbitrary field  *)
(* values (a dataclass without __post_init__ accepts them all) and then    *)
(* validate() is called on it.                                             *)
(***************************************************************************)
Pending == [pending |-> TRUE]

InitConfig ==
    /\ LegacyIdle
    /\ OrchIdle
    /\ config \in ConfigInputs
    /\ validate_result = Pending
    /\ agent = None
    /\ agent_df = None
    /\ agent_pc = "constructed"
    /\ process_calls = 0
    /\ agent_result = None

\* config.validate()
ConfigValidate ==
    /\ agent_pc = "constructed"
    /\ validate_result' = validate(config)
    /\ agent_pc' = "validated"
    /\ UNCHANGED <<config, agent, agent_df, process_calls, agent_result>>
    /\ UNCHANGED orchVars
    /\ UNCHANGED legacyVars

NextConfig == ConfigValidate

SpecConfig == InitConfig /\ [][NextConfig]_vars

(***************************************************************************)
(* SpecAgent: one indicator agent is built and run() once on one frame.    *)
(* The five UnifiedAgent classes are built from a configuration struct;    *)
(* config is None for the two SubAgent classes, which take their periods   *)
(* as plain arguments.                                                     *)
(***************************************************************************)
AgentPeriods == 1 .. MaxPeriod
AgentMultipliers == {0, 1, 3}
AtrLengths == 1 .. MaxPeriod + 2

AgentConfigs ==
    {MACDConfig(f, s, g) : f \in AgentPeriods, s \in AgentPeriods,
                           g \in AgentPeriods}
    \cup {RSIConfig(p, ob, os, xob, DEFAULT_RSI_EXTREME_OVERSOLD) :
             p \in AgentPeriods,
             ob \in {60, DEFAULT_RSI_OVERBOUGHT},
             os \in {DEFAULT_RSI_OVERSOLD, 40},
             xob \in {50, DEFAULT_RSI_EXTREME_OVERBOUGHT}}
    \cup {SMAConfig(s, l) : s \in AgentPeriods, l \in AgentPeriods}
    \cup {SMADeltaConfig(s, l) : s \in AgentPeriods, l \in AgentPeriods}
    \cup {SupertrendConfig(n, m) : n \in AtrLengths, m \in AgentMultipliers}

\* rows whose closes are the given sequence: flat bars, one bar per month
FlatRows(closes) ==
    [i \in 1 .. Len(closes) |->
        Bar(i, closes[i], closes[i], closes[i], closes[i], 1)]

RECURSIVE SeqsUpTo(_, _)
\* all sequences over S of length at most n
SeqsUpTo(S, n) ==
    IF n = 0 THEN {<<>>}
    ELSE LET shorter == SeqsUpTo(S, n - 1)
         IN  shorter \cup {Append(q, x) : q \in shorter, x \in S}

ColumnSets == {OHLCV, OHLCV \ {"Close"}, {"Date", "Close"}, {}}

\* rows whose closes rise by one a bar; bar wide (if any) has its High
\* SpikeHigh above its close, every other bar is flat
RisingRows(n, wide) ==
    [i \in 1 .. n |->
        Bar(i, i, IF i = wide THEN i + SpikeHigh ELSE i, i, i, 1)]

AgentFrames ==
    {DataFrame(cols, "RangeIndex", FlatRows(closes)) :
        cols \in ColumnSets, closes \in SeqsUpTo(1 .. MaxClose, MaxLen)}
    \cup {DataFrame(OHLCV, "RangeIndex", RisingRows(n, wide)) :
             n \in 1 .. RisingLen, wide \in 0 .. RisingLen}
    \cup {None}

\* the agent class built from each configuration struct
Construct(c) ==
    CASE c.type = "MACDConfig" -> MACDCombinedAgent(c)
      [] c.type = "RSIConfig" -> RSICombinedAgent(c)
      [] c.type = "SMAConfig" -> SMACombinedAgent(c)
      [] c.type = "SMADeltaConfig" -> SMADeltaCombinedAgent(c)
      [] c.type = "SupertrendConfig" -> SupertrendCombinedAgent(c)

InitAgent ==
    /\ LegacyIdle
    /\ OrchIdle
    /\ config \in AgentConfigs \cup {None}
    /\ validate_result = Pending
    /\ agent = None
    /\ agent_df \in AgentFrames
    /\ agent_pc = "new"
    /\ process_calls = 0
    /\ agent_result = None

\* __init__ of a UnifiedAgent subclass: copies the fields of config
AgentInit ==
    /\ agent_pc = "new"
    /\ config # None
    /\ agent' = Construct(config)
    /\ agent_pc' = "ready"
    /\ UNCHANGED <<config, validate_result, agent_df, process_calls,
                   agent_result>>
    /\ UNCHANGED orchVars
    /\ UNCHANGED legacyVars

\* SMADeltaAgent.__init__(short_period, long_period)
SMADeltaAgentInit ==
    /\ agent_pc = "new"
    /\ config = None
    /\ \E s \in AgentPeriods, l \in AgentPeriods :
          agent' = SMADeltaAgent(s, l)
    /\ agent_pc' = "ready"
    /\ UNCHANGED <<config, validate_result, agent_df, process_calls,
                   agent_result>>
    /\ UNCHANGED orchVars
    /\ UNCHANGED legacyVars

\* SupertrendAgent.__init__(atr_length, multiplier)
SupertrendAgentInit ==
    /\ agent_pc = "new"
    /\ config = None
    /\ \E n \in AtrLengths, m \in AgentMultipliers \ {0} :
          agent' = SupertrendAgent(n, m)
    /\ agent_pc' = "ready"
    /\ UNCHANGED <<config, validate_result, agent_df, process_calls,
                   agent_result>>
    /\ UNCHANGED orchVars
    /\ UNCHANGED legacyVars

\* UnifiedAgent.run up to and including _validate_input; a validation error
\* is caught by run's except clause, which returns the failed result
RunValidate ==
    /\ agent_pc = "ready"
    /\ IsUnified(agent)
    /\ LET invalid == _validate_input(agent, agent_df)
       IN  IF invalid # None
           THEN /\ agent_result' = FailedResult(agent, invalid)
                /\ agent_pc' = "done"
           ELSE /\ agent_result' = agent_result
                /\ agent_pc' = "validated"
    /\ UNCHANGED <<config, validate_result, agent, agent_df, process_calls>>
    /\ UNCHANGED orchVars
    /\ UNCHANGED legacyVars

\* the call of process(df.copy()) and the rest of run, for both base classes
RunProcess ==
    /\ \/ agent_pc = "validated"
       \/ agent_pc = "ready" /\ ~IsUnified(agent)
    /\ process_calls' = IF agent_df = None THEN process_calls
                        ELSE process_calls + 1
    /\ agent_result' = IF IsUnified(agent)
                       THEN LET r == process(agent, agent_df)
                            IN  IF r.raised THEN FailedResult(agent, r.exc)
                                ELSE CompletedResult(agent, r.value)
                       ELSE SubAgent_run(agent, agent_df)
    /\ agent_pc' = "done"
    /\ UNCHANGED <<config, validate_result, agent, agent_df>>
    /\ UNCHANGED orchVars
    /\ UNCHANGED legacyVars

NextAgent ==
    \/ AgentInit
    \/ SMADeltaAgentInit
    \/ SupertrendAgentInit
    \/ RunValidate
    \/ RunProcess

SpecAgent == InitAgent /\ [][NextAgent]_vars

(***************************************************************************)
(* Spec: OrchestratorAgent.run(daily_df, monthly_df, mode).  The daily     *)
(* series are three straight segments of SegmentLength bars, three bars to *)
(* a calendar month, cut to a number of rows; a zero-row frame keeps its   *)
(* float columns (df.iloc[0:0]).                                           *)
(***************************************************************************)
Slopes == {-1, 0, 1}
Shapes == {<<s1, s2, s3>> : s1 \in Slopes, s2 \in Slopes, s3 \in Slopes}

\* a full series gives the monthly SMA delta its two values
SegmentLength == ORCH_SMA_LONG + 1
FullLength == 3 * SegmentLength

Clamp(x, lo, hi) == Max2(lo, Min2(x, hi))

\* close of bar i of a shape
ShapeClose(shape, i) ==
    100 + shape[1] * Clamp(i - 1, 0, SegmentLength)
        + shape[2] * Clamp(i - 1 - SegmentLength, 0, SegmentLength)
        + shape[3] * Clamp(i - 1 - 2 * SegmentLength, 0, SegmentLength)

\* the first n bars of a shape; High and Low lie spread away from Close
DailyRows(shape, spread, n) ==
    [i \in 1 .. n |->
        LET c == ShapeClose(shape, i)
        IN  Bar(((i - 1) \div 3) + 1, c, c + spread, c - spread, c, 1)]

Daily(shape, spread, n) ==
    DataFrame(OHLCV, "RangeIndex", DailyRows(shape, spread, n))

\* a monthly frame of n bars whose close moves by slope, then by turn
MonthlyRows(n, slope, turn) ==
    [i \in 1 .. n |->
        LET c == 100 + slope * Min2(i - 1, n - 2) + turn * Max2(0, i - n + 1)
        IN  Bar(i, c, c, c, c, 1)]

SuppliedMonthly ==
    {DataFrame(OHLCV, "RangeIndex", MonthlyRows(SegmentLength, 1, -1)),
     DataFrame(OHLCV, "RangeIndex", MonthlyRows(SegmentLength, -1, 1)),
     DataFrame(OHLCV, "RangeIndex", MonthlyRows(3, 1, 1)),
     DataFrame(OHLCV \ {"Close"}, "RangeIndex",
               MonthlyRows(SegmentLength, 1, 1))}

Rising == <<1, 1, 1>>

\* daily frames that are not a complete OHLCV series with a Date column
DefectiveDaily ==
    {DataFrame(OHLCV \ {"Close"}, "RangeIndex", DailyRows(Rising, 0, FullLength)),
     DataFrame(OHLCV \ {"Volume"}, "RangeIndex", DailyRows(Rising, 0, FullLength)),
     DataFrame(OHLCV \ {"Date"}, "RangeIndex", DailyRows(Rising, 0, FullLength)),
     DataFrame(OHLCV \ {"Date"}, "DatetimeIndex", DailyRows(Rising, 0, FullLength)),
     EmptyFrame,
     None}

ShortCounts == {0, 5, 20}

\* the (daily_df, monthly_df) pairs run() is called with
OrchInputs ==
    {[daily |-> Daily(shape, 0, FullLength), monthly |-> None] :
        shape \in Shapes}
    \cup {[daily |-> Daily(<<s, s, s>>, 1, FullLength), monthly |-> None] :
             s \in Slopes}
    \cup {[daily |-> Daily(<<s, s, s>>, 0, n), monthly |-> None] :
             s \in Slopes, n \in ShortCounts}
    \cup {[daily |-> d, monthly |-> None] : d \in DefectiveDaily}
    \cup {[daily |-> d, monthly |-> m] :
             d \in {Daily(Rising, 0, FullLength), Daily(Rising, 0, 5), None},
             m \in SuppliedMonthly}

Modes == {"parallel", "sequential"}

Init ==
    /\ LegacyIdle
    /\ AgentIdle
    /\ \E in \in OrchInputs : daily_df = in.daily /\ monthly_df = in.monthly
    /\ mode \in Modes
    /\ status = "initialized"
    /\ pc = "init"
    /\ monthly = None
    /\ fut = [k \in AgentKeys |-> "idle"]
    /\ fut_result = EmptyDict
    /\ results = EmptyDict
    /\ buy_evaluation = None
    /\ returned = None
    /\ agent_status = [k \in AgentKeys |-> "initialized"]
    /\ heap = [NoTables EXCEPT !["daily_df"] = daily_df,
                               !["monthly_df"] = monthly_df]
    /\ wrote = [k \in AgentKeys |-> "none"]

\* the table each sub-agent is run on: the daily table, and for the SMA
\* delta the monthly table, supplied or resampled
InputId(k) ==
    IF k # "SMA" THEN "daily_df"
    ELSE IF monthly_df = None THEN "resampled" ELSE "monthly_df"

\* the frame each sub-agent is run on
InputOf(k) == heap[InputId(k)]

\* the tables after agent.run of sub-agent k: process() assigns its columns
\* on the table run() hands it
HeapAfterRun(k) ==
    IF process_entered(sub_agents[k], InputOf(k))
    THEN [heap EXCEPT ![run_target(k, InputId(k))] =
                          process_writes(sub_agents[k], InputOf(k))]
    ELSE heap

\* the table process() of sub-agent k assigned columns on
WroteAfterRun(k) ==
    IF process_entered(sub_agents[k], InputOf(k))
    THEN [wrote EXCEPT ![k] = run_target(k, InputId(k))]
    ELSE wrote

\* the tables after the first lines of run_sub_agents_*: with no monthly
\* table supplied, _resample_to_monthly copies the daily table, indexes the
\* copy by Date and builds the monthly table
HeapAfterResample(r) ==
    IF monthly_df # None \/ heap["daily_df"] = None THEN heap
    ELSE LET indexed ==
                 [heap EXCEPT ![resample_target("daily_df")] =
                                  resample_writes(heap["daily_df"])]
         IN  IF r.raised THEN indexed
             ELSE [indexed EXCEPT !["resampled"] = r.value]

\* agent.status after run()
StatusAfter(result) == result.status

\* a result map filled by position in the order MACD, RSI, SMA, Supertrend
\* shifted by one
futures_shifted(k) ==
    CASE k = "MACD" -> "RSI"
      [] k = "RSI" -> "SMA"
      [] k = "SMA" -> "Supertrend"
      [] k = "Supertrend" -> "MACD"

\* futures[future]: the agent type a future was submitted under
futures(k) == k

\* run(): status = "running", then the first lines of run_sub_agents_*:
\* the monthly frame is resampled when none was supplied; an exception of
\* _resample_to_monthly leaves run()
RunStart ==
    /\ pc = "init"
    /\ status' = "running"
    /\ LET r == IF monthly_df = None
                THEN _resample_to_monthly(heap["daily_df"])
                ELSE [raised |-> FALSE, value |-> heap["monthly_df"]]
       IN  /\ heap' = HeapAfterResample(r)
           /\ IF r.raised
              THEN /\ pc' = "raised"
                   /\ returned' = [raised |-> TRUE, exc |-> r.exc]
                   /\ monthly' = monthly
              ELSE /\ pc' = IF mode = "parallel" THEN "submit"
                            ELSE "sequential"
                   /\ returned' = returned
                   /\ monthly' = r.value
    /\ UNCHANGED <<daily_df, monthly_df, mode, fut, fut_result, results,
                   buy_evaluation, agent_status, wrote>>
    /\ UNCHANGED agentVars
    /\ UNCHANGED legacyVars

\* the four executor.submit calls
Submit ==
    /\ pc = "submit"
    /\ fut' = [k \in AgentKeys |-> "pending"]
    /\ pc' = "collect"
    /\ UNCHANGED <<daily_df, monthly_df, mode, status, monthly, fut_result,
                   results, buy_evaluation, returned, agent_status, heap,
                   wrote>>
    /\ UNCHANGED agentVars
    /\ UNCHANGED legacyVars

\* a worker thread executes agent.run; run() catches every Exception, so
\* the future always holds a result
RunTask(k) ==
    /\ fut[k] = "pending"
    /\ LET result == AgentRun(sub_agents[k], InputOf(k))
       IN  /\ fut_result' = [j \in {k} |-> result] @@ fut_result
           /\ agent_status' = [agent_status EXCEPT ![k] = StatusAfter(result)]
    /\ fut' = [fut EXCEPT ![k] = "done"]
    /\ heap' = HeapAfterRun(k)
    /\ wrote' = WroteAfterRun(k)
    /\ UNCHANGED <<daily_df, monthly_df, mode, status, pc, monthly, results,
                   buy_evaluation, returned>>
    /\ UNCHANGED agentVars
    /\ UNCHANGED legacyVars

\* one iteration of the as_completed loop
Collect(k) ==
    /\ pc = "collect"
    /\ fut[k] = "done"
    /\ results' = [j \in {futures(k)} |-> fut_result[k]] @@ results
    /\ fut' = [fut EXCEPT ![k] = "collected"]
    /\ UNCHANGED <<daily_df, monthly_df, mode, status, pc, monthly, fut_result,
                   buy_evaluation, returned, agent_status, heap, wrote>>
    /\ UNCHANGED agentVars
    /\ UNCHANGED legacyVars

\* a loop over the futures that ends with the first one it has yielded
as_completed_first(f) == \E k \in AgentKeys : f[k] = "collected"

\* "for future in as_completed(futures)" has yielded every future: the loop
\* ends when all four have finished and been handled
as_completed_exhausted(f) == \A k \in AgentKeys : f[k] = "collected"

\* the loop and the with-block end: run_sub_agents_parallel returns
Join ==
    /\ pc = "collect"
    /\ as_completed_exhausted(fut)
    /\ pc' = "evaluate"
    /\ UNCHANGED <<daily_df, monthly_df, mode, status, monthly, fut,
                   fut_result, results, buy_evaluation, returned,
                   agent_status, heap, wrote>>
    /\ UNCHANGED agentVars
    /\ UNCHANGED legacyVars

\* results of run_sub_agents_sequential on a resolved monthly frame
run_sub_agents_sequential(daily, monthly_frame) ==
    [k \in AgentKeys |->
        AgentRun(sub_agents[k], IF k = "SMA" THEN monthly_frame ELSE daily)]

\* the next call of run_sub_agents_sequential: MACD, RSI, SMA, Supertrend
SeqCall ==
    /\ pc = "sequential"
    /\ LET n == Cardinality(DOMAIN results) + 1
           k == AgentTypes[n]
           result == AgentRun(sub_agents[k], InputOf(k))
       IN  /\ results' = [j \in {k} |-> result] @@ results
           /\ agent_status' = [agent_status EXCEPT ![k] = StatusAfter(result)]
           /\ pc' = IF n = Len(AgentTypes) THEN "evaluate" ELSE "sequential"
           /\ heap' = HeapAfterRun(k)
           /\ wrote' = WroteAfterRun(k)
    /\ UNCHANGED <<daily_df, monthly_df, mode, status, monthly, fut,
                   fut_result, buy_evaluation, returned>>
    /\ UNCHANGED agentVars
    /\ UNCHANGED legacyVars

\* evaluate_buy_signal, status = "completed" and the return of run()
Evaluate ==
    /\ pc = "evaluate"
    /\ buy_evaluation' = evaluate_buy_signal(results)
    /\ status' = "completed"
    /\ returned' = [raised |-> FALSE,
                    value |-> [status |-> "completed",
                               execution_mode |-> mode,
                               sub_agent_results |-> results,
                               buy_signal_evaluation |->
                                   evaluate_buy_signal(results)]]
    /\ pc' = "done"
    /\ UNCHANGED <<daily_df, monthly_df, mode, monthly, fut, fut_result,
                   results, agent_status, heap, wrote>>
    /\ UNCHANGED agentVars
    /\ UNCHANGED legacyVars

Next ==
    \/ RunStart
    \/ Submit
    \/ \E k \in AgentKeys : RunTask(k)
    \/ \E k \in AgentKeys : Collect(k)
    \/ Join
    \/ SeqCall
    \/ Evaluate

Spec == Init /\ [][Next]_vars

(***************************************************************************)
(* SpecVote: evaluate_buy_signal on every combination of the result        *)
(* dictionaries the four sub-agents can return, reduced to the fields the  *)
(* vote reads.                                                             *)
(***************************************************************************)
Seasons == {"Spring", "Summer", "Autumn", "Winter", "Neutral", "Unknown"}

\* RSI values 0, 600/7, 90, 650/7, 100 and NaN
VoteRsiValues == {[n |-> 0, d |-> 14], [n |-> 1200, d |-> 14],
                  [n |-> 90, d |-> 1], [n |-> 1300, d |-> 14],
                  [n |-> 1400, d |-> 14], RSI_NaN}

VoteMACD ==
    {FailedResult(sub_agents["MACD"],
                  EmptyDataFrameError(sub_agents["MACD"].name))}
    \cup {CompletedResult(sub_agents["MACD"],
              [summary |->
                  [seasonal_analysis |->
                      [current_season |-> season,
                       is_bullish_season |-> season \in {"Spring", "Summer"}]]]) :
             season \in Seasons}

VoteRSI ==
    {FailedResult(sub_agents["RSI"],
                  EmptyDataFrameError(sub_agents["RSI"].name)),
     CompletedResult(sub_agents["RSI"],
         [summary |-> [error |-> "Unable to calculate RSI - no valid data",
                       signal |-> "NEUTRAL"]])}
    \cup {CompletedResult(sub_agents["RSI"],
              [summary |->
                  [rsi_value |-> r,
                   extreme_levels |-> [is_above_90 |-> is_above_90_of(r)]]]) :
             r \in VoteRsiValues}

FailedSubResult(a) ==
    [agent |-> a.name, status |-> "failed", output |-> None,
     error |-> str(KeyError("Close"))]

CompletedSubResult(a, output) ==
    [agent |-> a.name, status |-> "completed", output |-> output,
     error |-> None]

VoteSMA ==
    {FailedSubResult(sub_agents["SMA"]),
     CompletedSubResult(sub_agents["SMA"],
         [sma_delta |-> None,
          error |-> "Insufficient data (need at least long_period monthly points)"])}
    \cup {CompletedSubResult(sub_agents["SMA"],
              [is_favorable_for_buy |-> b, is_delta_rising |-> b,
               is_delta_positive |-> q]) : b \in BOOLEAN, q \in BOOLEAN}

VoteSupertrend ==
    {FailedSubResult(sub_agents["Supertrend"])}
    \cup {CompletedSubResult(sub_agents["Supertrend"],
              [supertrend_signal |-> IF g THEN "Green" ELSE "Red",
               is_green |-> g]) : g \in BOOLEAN}

InitVote ==
    /\ LegacyIdle
    /\ AgentIdle
    /\ daily_df = None
    /\ monthly_df = None
    /\ mode = "idle"
    /\ status = "running"
    /\ pc = "evaluate"
    /\ monthly = None
    /\ fut = [k \in AgentKeys |-> "idle"]
    /\ fut_result = EmptyDict
    /\ \E m \in VoteMACD, r \in VoteRSI, d \in VoteSMA, t \in VoteSupertrend :
          results = [MACD |-> m, RSI |-> r, SMA |-> d, Supertrend |-> t]
    /\ buy_evaluation = None
    /\ returned = None
    /\ agent_status = [k \in AgentKeys |-> "initialized"]
    /\ heap = NoTables
    /\ wrote = [k \in AgentKeys |-> "none"]

\* evaluate_buy_signal(sub_agent_results)
VoteEvaluate ==
    /\ pc = "evaluate"
    /\ buy_evaluation' = evaluate_buy_signal(results)
    /\ pc' = "voted"
    /\ UNCHANGED <<daily_df, monthly_df, mode, status, monthly, fut,
                   fut_result, results, returned, agent_status, heap, wrote>>
    /\ UNCHANGED agentVars
    /\ UNCHANGED legacyVars

NextVote == VoteEvaluate

SpecVote == InitVote /\ [][NextVote]_vars

(***************************************************************************)
(* Properties of the vote and of OrchestratorAgent.run.                    *)
(***************************************************************************)
\* 1 for a true condition, 0 for a false one
Bit(b) == IF b THEN 1 ELSE 0

\* number of true conditions among the four of an evaluation
TrueConditions(evaluation) ==
    Bit(evaluation.individual_conditions.condition_1_macd_season)
    + Bit(evaluation.individual_conditions.condition_2_rsi_check)
    + Bit(evaluation.individual_conditions.condition_3_sma_delta)
    + Bit(evaluation.individual_conditions.condition_4_supertrend)

\* C1: for each of the 16 combinations of the four conditions,
\* conditions_met is the number of true conditions (0..4), buy_signal is
\* true iff conditions_met >= 2, and recommendation is "BUY" iff
\* conditions_met >= 2 and "HOLD/WAIT" otherwise.
C1_TwoOfFour ==
    pc = "voted" =>
        /\ buy_evaluation.conditions_met = TrueConditions(buy_evaluation)
        /\ buy_evaluation.conditions_met \in 0 .. 4
        /\ buy_evaluation.buy_signal <=> buy_evaluation.conditions_met >= 2
        /\ buy_evaluation.recommendation =
              IF buy_evaluation.conditions_met >= 2 THEN "BUY" ELSE "HOLD/WAIT"

\* a vote with exactly two true conditions has recommended BUY
C1_Witness ==
    /\ pc = "voted"
    /\ TrueConditions(buy_evaluation) = 2
    /\ buy_evaluation.individual_conditions.condition_2_rsi_check
    /\ buy_evaluation.individual_conditions.condition_4_supertrend
    /\ buy_evaluation.recommendation = "BUY"

\* the voting fields of an evaluation
VoteOf(evaluation) ==
    [individual_conditions |-> evaluation.individual_conditions,
     conditions_met |-> evaluation.conditions_met,
     buy_signal |-> evaluation.buy_signal,
     recommendation |-> evaluation.recommendation]

\* C2: in parallel mode, whatever the order in which the four tasks run
\* and complete, run() yields the same individual_conditions,
\* conditions_met, buy_signal and recommendation as the sequential
\* execution on the same daily and monthly series.
C2_ParallelEqualsSequential ==
    (pc = "done" /\ mode = "parallel") =>
        VoteOf(returned.value.buy_signal_evaluation) =
            VoteOf(evaluate_buy_signal(
                       run_sub_agents_sequential(daily_df, monthly)))

\* a parallel run in which all four indicators completed has returned BUY
C2_Witness ==
    /\ pc = "done"
    /\ mode = "parallel"
    /\ returned.value.buy_signal_evaluation.recommendation = "BUY"
    /\ \A k \in AgentKeys :
          returned.value.sub_agent_results[k].status = "completed"

\* the frame handed to indicator k lacks what the indicator needs: it is
\* None or empty, lacks a column the indicator reads, or has fewer rows
\* than the indicator's periods require
LacksData(k) ==
    LET df == InputOf(k)
    IN  \/ df = None
        \/ df.cols = {} \/ Len(df.rows) = 0
        \/ CASE k = "MACD" ->
                    \/ ~({"Open", "High", "Low", "Close"} \subseteq df.cols)
                    \/ Len(df.rows) < DEFAULT_MACD_SLOW + DEFAULT_MACD_SIGNAL
             [] k = "RSI" ->
                    \/ ~({"Open", "High", "Low", "Close"} \subseteq df.cols)
                    \/ Len(df.rows) < DEFAULT_RSI_PERIOD + 1
             [] k = "SMA" ->
                    \/ "Close" \notin df.cols
                    \/ Len(df.rows) < ORCH_SMA_LONG + 1
             [] k = "Supertrend" ->
                    \/ ~({"High", "Low", "Close"} \subseteq df.cols)
                    \/ Len(df.rows) < ORCH_ATR_LENGTH

\* the condition of the vote that belongs to indicator k
ConditionOf(evaluation, k) ==
    CASE k = "MACD" -> evaluation.individual_conditions.condition_1_macd_season
      [] k = "RSI" -> evaluation.individual_conditions.condition_2_rsi_check
      [] k = "SMA" -> evaluation.individual_conditions.condition_3_sma_delta
      [] k = "Supertrend" ->
            evaluation.individual_conditions.condition_4_supertrend

\* the results with every indicator but k replaced by a failure
OthersFailed(k) ==
    [j \in AgentKeys |->
        IF j = k THEN results[j]
        ELSE [agent |-> j, status |-> "failed", output |-> None,
              error |-> None]]

\* C3: in a run that reaches the vote, every indicator that fails for an
\* exception, missing data or insufficient data is recorded with status
\* "failed" and its condition is false, and the condition of every other
\* indicator has the value it has whatever the other indicators returned.
C3_FailuresIsolated ==
    pc = "done" =>
        \A k \in AgentKeys :
            /\ LacksData(k) =>
                  /\ results[k].status = "failed"
                  /\ ~ConditionOf(buy_evaluation, k)
            /\ results[k].status = "failed" => ~ConditionOf(buy_evaluation, k)
            /\ ConditionOf(buy_evaluation, k) =
                  ConditionOf(evaluate_buy_signal(OthersFailed(k)), k)

\* C4: run() never raises: for every daily series, empty or lacking a
\* field included, with or without a monthly series, it returns an
\* evaluation recommending "BUY" or "HOLD/WAIT", and when all four
\* indicators fail the evaluation has conditions_met = 0 and recommends
\* "HOLD/WAIT".
C4_AlwaysRecommends ==
    /\ pc # "raised"
    /\ returned # None => ~returned.raised
    /\ pc = "done" =>
          /\ returned.value.buy_signal_evaluation.recommendation
                \in {"BUY", "HOLD/WAIT"}
          /\ (\A k \in AgentKeys : results[k].status = "failed") =>
                /\ returned.value.buy_signal_evaluation.conditions_met = 0
                /\ returned.value.buy_signal_evaluation.recommendation =
                      "HOLD/WAIT"

\* C5: condition 2 of the vote is true iff the RSI indicator completed and
\* its latest RSI value is a number <= 90 (the literal 90, whatever
\* extreme_overbought is).
C5_RsiAtMost90 ==
    pc = "done" =>
        (buy_evaluation.individual_conditions.condition_2_rsi_check
         <=> /\ results["RSI"].status = "completed"
             /\ "rsi_value" \in DOMAIN results["RSI"].summary
             /\ results["RSI"].summary.rsi_value.d > 0
             /\ results["RSI"].summary.rsi_value.n
                   <= 90 * results["RSI"].summary.rsi_value.d)

\* C6: condition 1 is true iff the MACD indicator completed and its current
\* season is Spring or Summer; condition 3 iff the SMA-delta indicator
\* completed and its is_favorable_for_buy flag is set; condition 4 iff the
\* Supertrend indicator completed and its latest signal is Green.
C6_OtherConditions ==
    pc = "done" =>
        /\ buy_evaluation.individual_conditions.condition_1_macd_season
           <=> /\ results["MACD"].status = "completed"
               /\ results["MACD"].summary.seasonal_analysis.current_season
                     \in {"Spring", "Summer"}
        /\ buy_evaluation.individual_conditions.condition_3_sma_delta
           <=> /\ results["SMA"].status = "completed"
               /\ "is_favorable_for_buy" \in DOMAIN results["SMA"].output
               /\ results["SMA"].output.is_favorable_for_buy
        /\ buy_evaluation.individual_conditions.condition_4_supertrend
           <=> /\ results["Supertrend"].status = "completed"
               /\ results["Supertrend"].output.supertrend_signal = "Green"

\* a run has ended with conditions 1, 3 and 4 true
C6_Witness ==
    /\ pc = "done"
    /\ buy_evaluation.individual_conditions.condition_1_macd_season
    /\ buy_evaluation.individual_conditions.condition_3_sma_delta
    /\ buy_evaluation.individual_conditions.condition_4_supertrend
    /\ results["MACD"].summary.seasonal_analysis.current_season = "Summer"
    /\ results["Supertrend"].output.supertrend_signal = "Green"

(***************************************************************************)
(* Properties of SpecConfig and SpecAgent.                                 *)
(***************************************************************************)
\* the invariant of each configuration type, as documented
InvariantViolated(c) ==
    CASE c.type = "MACDConfig" ->
            \/ c.fast_period >= c.slow_period
            \/ c.fast_period < 1 \/ c.slow_period < 1 \/ c.signal_period < 1
      [] c.type = "RSIConfig" ->
            \/ c.period < 1
            \/ ~(0 <= c.oversold_threshold
                 /\ c.oversold_threshold < c.overbought_threshold
                 /\ c.overbought_threshold <= 100)
            \/ c.extreme_oversold < 0 \/ c.extreme_oversold > 100
            \/ c.extreme_overbought < 0 \/ c.extreme_overbought > 100
      [] c.type = "SMAConfig" ->
            \/ c.short_period >= c.long_period
            \/ c.short_period < 1 \/ c.long_period < 1
      [] c.type = "SMADeltaConfig" ->
            \/ c.short_lookback_months >= c.long_lookback_months
            \/ c.short_lookback_months < 1 \/ c.long_lookback_months < 1
      [] c.type = "SupertrendConfig" ->
            c.atr_length < 1 \/ c.atr_multiplier <= 0

\* C10: validate() raises ValueError exactly when the invariant of its
\* configuration type is violated (MACD: fast >= slow or a period < 1; RSI:
\* period < 1, or not 0 <= oversold < overbought <= 100, or an extreme
\* threshold outside [0, 100]; SMA and SMA-delta: short >= long or a period
\* < 1; Supertrend: atr_length < 1 or atr_multiplier <= 0), and returns
\* without error for all other values.
C10_ValidateExact ==
    agent_pc = "validated" =>
        /\ (validate_result # None) <=> InvariantViolated(config)
        /\ validate_result # None => validate_result.exc = "ValueError"

\* validate() has raised on a MACD struct whose periods are equal and positive
C10_Witness ==
    /\ agent_pc = "validated"
    /\ config.type = "MACDConfig"
    /\ config.fast_period = config.slow_period
    /\ config.fast_period >= 1
    /\ config.signal_period >= 1
    /\ validate_result # None

\* C9: a configuration violating its invariant is rejected when it is
\* constructed, so process() is never entered by an agent built from a
\* configuration that validate() rejects.
C9_NoProcessWithInvalidConfig ==
    (config # None /\ process_calls > 0) => validate(config) = None

\* the rows each UnifiedAgent requires
FewerThanMinimum(a, df) ==
    /\ df # None
    /\ ~(df.cols = {} \/ Len(df.rows) = 0)
    /\ {"Open", "High", "Low", "Close"} \subseteq df.cols
    /\ Len(df.rows) < get_minimum_rows(a)

\* a failed UnifiedAgent result without data, output and summary whose
\* error names the exception class
FailedWith(result, class) ==
    /\ result.status = "failed"
    /\ result.data = None
    /\ result.output = None
    /\ result.summary = None
    /\ result.error.type_name = class

\* C8: UnifiedAgent.run validates before computing, in this order: None or
\* empty input fails with EmptyDataFrameError; otherwise a missing Open,
\* High, Low or Close column fails with MissingColumnsError; otherwise fewer
\* rows than get_minimum_rows() fails with InsufficientDataError.  In each
\* case process() is not entered and the failed result has no data, output
\* or summary.
C8_ValidationOrder ==
    (agent_pc = "done" /\ IsUnified(agent)) =>
        LET df == agent_df
            isEmpty == df = None \/ df.cols = {} \/ Len(df.rows) = 0
            lacks == ~({"Open", "High", "Low", "Close"} \subseteq df.cols)
        IN  /\ isEmpty =>
                 /\ FailedWith(agent_result, "EmptyDataFrameError")
                 /\ process_calls = 0
            /\ (~isEmpty /\ lacks) =>
                 /\ FailedWith(agent_result, "MissingColumnsError")
                 /\ process_calls = 0
            /\ FewerThanMinimum(agent, df) =>
                 /\ FailedWith(agent_result, "InsufficientDataError")
                 /\ process_calls = 0

\* a frame both lacking a column and too short has been refused for its
\* columns
C8_Witness ==
    /\ agent_pc = "done"
    /\ IsUnified(agent)
    /\ agent_df # None
    /\ Len(agent_df.rows) > 0
    /\ Len(agent_df.rows) < get_minimum_rows(agent)
    /\ agent_result.status = "failed"
    /\ agent_result.error.type_name = "MissingColumnsError"
    /\ process_calls = 0

\* the minimum number of rows an agent declares: get_minimum_rows() of a
\* UnifiedAgent, the count named in SMADeltaAgent's message
DeclaredMinimum(a) ==
    IF IsUnified(a) THEN get_minimum_rows(a) ELSE a.long_period

\* C7: an indicator run on a series with fewer rows than its declared
\* minimum returns status "failed" with an error naming
\* InsufficientDataError and carrying required = the minimum and actual =
\* the number of rows supplied.
C7_InsufficientRowsFail ==
    (/\ agent_pc = "done"
     /\ agent.cls # "SupertrendAgent"
     /\ agent_df # None
     /\ agent_df.cols = OHLCV
     /\ Len(agent_df.rows) > 0
     /\ Len(agent_df.rows) < DeclaredMinimum(agent))
    => /\ agent_result.status = "failed"
       /\ "type_name" \in DOMAIN agent_result.error
       /\ agent_result.error.type_name = "InsufficientDataError"
       /\ agent_result.error.message.required = DeclaredMinimum(agent)
       /\ agent_result.error.message.actual = Len(agent_df.rows)

(***************************************************************************)
(* Properties of the results of run().                                     *)
(***************************************************************************)
\* the report of a result: the summary of a UnifiedAgent result, the output
\* of a SubAgent result (which has no summary field)
ReportOf(result) ==
    IF "summary" \in DOMAIN result THEN result.summary ELSE result.output

\* C11 (as stated): every result of an indicator's run has exactly one of
\* summary and error: a "completed" result carries a summary and no error,
\* a "failed" result carries an error and no summary.
C11_SummaryOrError ==
    agent_pc = "done" =>
        /\ agent_result.status \in {"completed", "failed"}
        /\ agent_result.status = "completed" =>
              /\ "summary" \in DOMAIN agent_result
              /\ agent_result.summary # None
              /\ agent_result.error = None
        /\ agent_result.status = "failed" =>
              /\ agent_result.error # None
              /\ "summary" \in DOMAIN agent_result => agent_result.summary = None

\* C11 (amended): every result has exactly one of its report and its error,
\* the report being the summary of a UnifiedAgent result and the output of
\* a SubAgent result: "completed" carries the report and no error,
\* "failed" carries the error and no report.
C11_ReportOrError ==
    agent_pc = "done" =>
        /\ agent_result.status \in {"completed", "failed"}
        /\ agent_result.status = "completed" =>
              /\ ReportOf(agent_result) # None
              /\ agent_result.error = None
        /\ agent_result.status = "failed" =>
              /\ ReportOf(agent_result) = None
              /\ agent_result.error # None

\* an RSI run has completed with a summary that reports that no RSI could
\* be calculated, and with no error
C11_Witness ==
    /\ agent_pc = "done"
    /\ agent.cls = "RSICombinedAgent"
    /\ agent_result.status = "completed"
    /\ "error" \in DOMAIN agent_result.summary
    /\ agent_result.error = None

\* C12: run() of the orchestrator and of each indicator it runs leaves the
\* caller's daily and monthly tables as they were passed (no column added,
\* no value altered): process() assigns its derived columns on a table of
\* its own, so no two sub-agents assign on the same table and none assigns
\* on a table of the caller or on the resampled monthly table.
C12_InputUnchanged ==
    /\ heap["daily_df"] = daily_df
    /\ heap["monthly_df"] = monthly_df
    /\ \A k \in AgentKeys :
          wrote[k] # "none" =>
              /\ wrote[k] \notin {"daily_df", "monthly_df", "resampled"}
              /\ \A j \in AgentKeys \ {k} : wrote[j] # wrote[k]

\* a parallel run has ended in which the four sub-agents each assigned
\* derived columns on a table, and the resampling indexed its copy by Date
C12_Witness ==
    /\ pc = "done"
    /\ mode = "parallel"
    /\ \A k \in AgentKeys :
          /\ wrote[k] # "none"
          /\ heap[wrote[k]].cols \ OHLCV # {}
    /\ heap["resample_copy"] # None
    /\ heap["resample_copy"].index = "DatetimeIndex"
    /\ heap["daily_df"].index = "RangeIndex"

(***************************************************************************)
(* Properties of the indicator calculations.                               *)
(***************************************************************************)
\* sum of the rises (dir = 1) or of the falls (dir = -1) of close over the
\* window of the given period that ends at bar i
WindowMove(close, period, i, dir) ==
    LET lo == Max2(2, i - period + 1)
        move(j) == dir * (close[j] - close[j - 1])
    IN  SumRange([j \in 1 .. Len(close) |->
                     IF j >= 2 /\ move(j) > 0 THEN move(j) ELSE 0], lo, i)

\* an RSI value that is a number in [0, 100]
RSI_InRange(r) == RSI_ge(r, 0) /\ RSI_le(r, 100)

\* C13: for every close series the RSI of every bar, and the latest RSI
\* reported in the summary, is a value in [0, 100]; at a bar whose window
\* has average loss 0 and positive average gain the RSI is 100.
C13_RsiInRange ==
    (/\ agent_pc = "done"
     /\ agent.cls = "RSICombinedAgent"
     /\ agent_result.status = "completed")
    => LET rsi == _calculate_rsi(agent, agent_df)
           close == Column(agent_df, "Close")
       IN  /\ \A i \in 1 .. Len(rsi) :
                 /\ RSI_InRange(rsi[i])
                 /\ (/\ WindowMove(close, agent.period, i, -1) = 0
                     /\ WindowMove(close, agent.period, i, 1) > 0)
                    => rsi[i].n = 100 * rsi[i].d
           /\ "rsi_value" \in DOMAIN agent_result.summary
           /\ RSI_InRange(agent_result.summary.rsi_value)

\* short SMA minus long SMA at bar i, times short_period * long_period
SmaGap(a, close, i) ==
    a.long_period * SumRange(close, i - a.short_period + 1, i)
    - a.short_period * SumRange(close, i - a.long_period + 1, i)

\* C14: at the latest bar SMACombinedAgent reports GOLDEN_CROSS only if the
\* previous short SMA <= the previous long SMA and the current short SMA >
\* the current long SMA, DEATH_CROSS only if the previous short SMA >= the
\* previous long SMA and the current short SMA < the current long SMA, and
\* the conditions of the two patterns never hold for the same bar.
C14_CrossoverSound ==
    (/\ agent_pc = "done"
     /\ agent.cls = "SMACombinedAgent"
     /\ agent_result.status = "completed")
    => LET crossover == agent_result.summary.crossover
           close == Column(agent_df, "Close")
           n == Len(close)
           defined == n >= agent.long_period + 1
           golden == /\ defined
                     /\ SmaGap(agent, close, n - 1) <= 0
                     /\ SmaGap(agent, close, n) > 0
           death == /\ defined
                    /\ SmaGap(agent, close, n - 1) >= 0
                    /\ SmaGap(agent, close, n) < 0
       IN  /\ crossover.pattern = "GOLDEN_CROSS" => golden
           /\ crossover.pattern = "DEATH_CROSS" => death
           /\ ~(golden /\ death)
           /\ crossover.detected <=>
                 crossover.pattern \in {"GOLDEN_CROSS", "DEATH_CROSS"}

\* a golden cross has been reported at the latest bar of a series whose
\* short SMA was below its long SMA one bar earlier
C14_Witness ==
    /\ agent_pc = "done"
    /\ agent.cls = "SMACombinedAgent"
    /\ agent_result.status = "completed"
    /\ agent_result.summary.crossover.pattern = "GOLDEN_CROSS"
    /\ SmaGap(agent, Column(agent_df, "Close"), Len(agent_df.rows) - 1) < 0

\* the SMA delta of the latest bar is strictly greater than the delta of
\* the bar before it
DeltaRising(a, close) ==
    /\ Len(close) >= Max2(a.short_period, a.long_period) + 1
    /\ SmaGap(a, close, Len(close)) > SmaGap(a, close, Len(close) - 1)

\* C15: in SMADeltaAgent and in SMADeltaCombinedAgent is_favorable_for_buy
\* is true iff the current delta is strictly greater than the previous
\* delta, whatever its sign; the signal of a completed SMADeltaCombinedAgent
\* run is BUY iff the delta is rising and SELL otherwise, never NEUTRAL.
C15_FavorableIffRising ==
    (/\ agent_pc = "done"
     /\ agent.cls \in {"SMADeltaAgent", "SMADeltaCombinedAgent"}
     /\ agent_result.status = "completed")
    => LET report == ReportOf(agent_result)
           rising == DeltaRising(agent, Column(agent_df, "Close"))
           favorable == /\ "is_favorable_for_buy" \in DOMAIN report
                        /\ report.is_favorable_for_buy
       IN  /\ favorable <=> rising
           /\ agent.cls = "SMADeltaCombinedAgent" =>
                 report.signal = IF rising THEN "BUY" ELSE "SELL"


(***************************************************************************)
(* Supertrend claims (SpecAgent).  SupertrendRan holds once a Supertrend   *)
(* agent has completed run() on agent_df; SupertrendRows are the band and  *)
(* signal columns that run computed.                                      *)
(***************************************************************************)
SupertrendRan ==
    /\ agent_pc = "done"
    /\ agent # None
    /\ agent.cls \in {"SupertrendAgent", "SupertrendCombinedAgent"}
    /\ agent_result.status = "completed"

SupertrendRows ==
    IF agent.cls = "SupertrendAgent"
    THEN calculate_supertrend(agent, agent_df)
    ELSE _calculate_supertrend(agent, agent_df)

StrictlyRising(close) == \A i \in 2 .. Len(close) : close[i] > close[i - 1]

\* some bar is Green
TurnsGreen(rows) == \E i \in 1 .. Len(rows) : rows[i].Supertrend_Signal = "Green"

\* no bar after a Green bar is Red
StaysGreen(rows) ==
    \A i \in 1 .. Len(rows), j \in 1 .. Len(rows) :
        (i < j /\ rows[i].Supertrend_Signal = "Green")
            => rows[j].Supertrend_Signal = "Green"

\* C16: on every series whose closes rise strictly from bar to bar, the
\* Supertrend signal is Green at some bar and, from its first Green bar on,
\* Green at every later bar.
C16_RisingSettlesGreen ==
    (SupertrendRan /\ StrictlyRising(Column(agent_df, "Close")))
    => /\ TurnsGreen(SupertrendRows)
       /\ StaysGreen(SupertrendRows)


\* C17: in a parallel run, whatever the order in which the four tasks
\* finish, the result map holds exactly the collected indicators, each under
\* its own key with the result its own task produced; when the vote starts
\* no task is pending or running and the map has exactly the keys MACD, RSI,
\* SMA and Supertrend, each bound to the result of that indicator's run.
C17_ResultsByIdentity ==
    mode = "parallel"
    => /\ DOMAIN results = {k \in AgentKeys : fut[k] = "collected"}
       /\ \A k \in DOMAIN results : results[k] = fut_result[k]
       /\ pc \in {"evaluate", "done"}
          => /\ \A k \in AgentKeys : fut[k] = "collected"
             /\ DOMAIN results = AgentKeys
             /\ \A k \in AgentKeys :
                   results[k] = AgentRun(sub_agents[k], InputOf(k))
       /\ buy_evaluation # None => pc = "done"

\* the vote of a parallel run is about to start on four results of which
\* some completed and some failed, no two of them equal
C17_Witness ==
    /\ mode = "parallel"
    /\ pc = "evaluate"
    /\ \E j \in AgentKeys, k \in AgentKeys :
          /\ results[j].status = "completed"
          /\ results[k].status = "failed"
    /\ \A j \in AgentKeys, k \in AgentKeys :
          j # k => results[j] # results[k]


\* the ATR of bar i is a number
AtrDefined(i) ==
    ~IsNaN(ATR_sum(TR_column(agent_df), agent.atr_length, i))

\* basic bands and previous close of bar i, in band units
BasicUpperAt(i) == Basic_Upper(agent_df, agent, TR_column(agent_df), i)
BasicLowerAt(i) == Basic_Lower(agent_df, agent, TR_column(agent_df), i)
CloseAt(i) == BandUnits(agent, agent_df.rows[i].Close)

\* C18: at every bar after the first whose ATR is defined, the final upper
\* band is min(basic upper, previous final upper) if the previous close is
\* <= the previous final upper band and the basic upper band otherwise; the
\* final lower band is max(basic lower, previous final lower) if the
\* previous close is >= the previous final lower band and the basic lower
\* band otherwise; "previous final" is the band the loop left at the bar
\* before.  (A comparison with a NaN band is false.)
C18_BandRatchet ==
    SupertrendRan
    => LET rows == SupertrendRows
       IN  \A i \in 2 .. Len(rows) :
             AtrDefined(i)
             => LET pu == rows[i - 1].Upper_Band
                    pl == rows[i - 1].Lower_Band
                IN  /\ rows[i].Upper_Band =
                          IF pu # NaN /\ CloseAt(i - 1) <= pu
                          THEN Min2(BasicUpperAt(i), pu)
                          ELSE BasicUpperAt(i)
                    /\ rows[i].Lower_Band =
                          IF pl # NaN /\ CloseAt(i - 1) >= pl
                          THEN Max2(BasicLowerAt(i), pl)
                          ELSE BasicLowerAt(i)

\* a run in which one bar's upper band was held below its basic band, one
\* bar's lower band was held above its basic band, and one bar took a basic
\* upper band above the previous final one because the previous close had
\* crossed it
C18_Witness ==
    /\ SupertrendRan
    /\ LET rows == SupertrendRows
       IN  /\ \E i \in 2 .. Len(rows) :
                 AtrDefined(i) /\ rows[i].Upper_Band < BasicUpperAt(i)
           /\ \E i \in 2 .. Len(rows) :
                 AtrDefined(i) /\ rows[i].Lower_Band > BasicLowerAt(i)
           /\ \E i \in 2 .. Len(rows) :
                 /\ AtrDefined(i - 1)
                 /\ CloseAt(i - 1) > rows[i - 1].Upper_Band
                 /\ rows[i].Upper_Band > rows[i - 1].Upper_Band


\* C19: the first bar is Red; at every later bar the signal is Green if the
\* close is above the previous bar's final upper band, Red if the close is
\* below the previous bar's final lower band, and the previous bar's signal
\* otherwise; the Supertrend value of the bar is its final lower band when
\* the signal is Green and its final upper band when it is Red.
C19_SignalRecurrence ==
    SupertrendRan
    => LET rows == SupertrendRows
       IN  /\ rows[1].Supertrend_Signal = "Red"
           /\ \A i \in 2 .. Len(rows) :
                LET pu == rows[i - 1].Upper_Band
                    pl == rows[i - 1].Lower_Band
                    above == pu # NaN /\ CloseAt(i) > pu
                    below == pl # NaN /\ CloseAt(i) < pl
                    signal == rows[i].Supertrend_Signal
                IN  /\ above => signal = "Green"
                    /\ below => signal = "Red"
                    /\ (~above /\ ~below)
                       => signal = rows[i - 1].Supertrend_Signal
                    /\ rows[i].Supertrend =
                          IF signal = "Green" THEN rows[i].Lower_Band
                          ELSE rows[i].Upper_Band


\* C20: at every bar whose ATR is defined the final lower band is <= the
\* final upper band, and at no bar is the close both above the previous
\* bar's final upper band and below the previous bar's final lower band.
C20_BandsOrdered ==
    SupertrendRan
    => LET rows == SupertrendRows
       IN  /\ \A i \in 1 .. Len(rows) :
                AtrDefined(i) => rows[i].Lower_Band <= rows[i].Upper_Band
           /\ \A i \in 2 .. Len(rows) :
                LET pu == rows[i - 1].Upper_Band
                    pl == rows[i - 1].Lower_Band
                IN  ~(/\ pu # NaN /\ CloseAt(i) > pu
                      /\ pl # NaN /\ CloseAt(i) < pl)


(***************************************************************************)
(* RSI signal claims (SpecAgent).                                          *)
(***************************************************************************)
\* an RSICombinedAgent built from a valid configuration has completed run()
\* with a summary of the latest bar
RsiRan ==
    /\ agent_pc = "done"
    /\ agent # None
    /\ agent.cls = "RSICombinedAgent"
    /\ RSIConfig_validate(config) = None
    /\ agent_result.status = "completed"
    /\ "zone" \in DOMAIN agent_result.summary

\* the RSI of the latest bar and of the bar before it
CurrentRsi == _calculate_rsi(agent, agent_df)[Len(agent_df.rows)]
PreviousRsi == _calculate_rsi(agent, agent_df)[Len(agent_df.rows) - 1]

\* the rule of the precedence list that decides the signal, 0 if none does
RsiRule ==
    LET prev == PreviousRsi
        cur == CurrentRsi
        zone == agent_result.summary.zone
    IN  IF RSI_le(prev, agent.oversold) /\ RSI_gt(cur, agent.oversold) THEN 1
        ELSE IF RSI_lt(cur, agent.extreme_oversold) THEN 2
        ELSE IF RSI_lt(prev, agent.overbought) /\ RSI_ge(cur, agent.overbought)
        THEN 3
        ELSE IF RSI_gt(cur, agent.extreme_overbought) THEN 4
        ELSE IF zone # "Neutral" THEN 5
        ELSE 0

\* C21: the zone of the latest RSI follows the ladder > extreme_overbought,
\* >= overbought, < extreme_oversold, <= oversold, else Neutral; the signal
\* is that of the first matching rule: (1) previous <= oversold and current
\* > oversold BUY, (2) current < extreme_oversold BUY, (3) previous <
\* overbought and current >= overbought SELL, (4) current >
\* extreme_overbought SELL, (5) zone (Extreme) Oversold BUY and zone
\* (Extreme) Overbought SELL, else NEUTRAL.
C21_RsiPrecedence ==
    RsiRan
    => LET cur == CurrentRsi
           zone == agent_result.summary.zone
           signal == agent_result.summary.signal
       IN  /\ zone = (IF RSI_gt(cur, agent.extreme_overbought)
                      THEN "Extreme Overbought"
                      ELSE IF RSI_ge(cur, agent.overbought) THEN "Overbought"
                      ELSE IF RSI_lt(cur, agent.extreme_oversold)
                      THEN "Extreme Oversold"
                      ELSE IF RSI_le(cur, agent.oversold) THEN "Oversold"
                      ELSE "Neutral")
           /\ signal =
                 (CASE RsiRule \in {1, 2} -> "BUY"
                    [] RsiRule \in {3, 4} -> "SELL"
                    [] RsiRule = 5 ->
                          IF zone \in {"Extreme Oversold", "Oversold"}
                          THEN "BUY" ELSE "SELL"
                    [] RsiRule = 0 -> "NEUTRAL")

\* a run whose previous RSI is at or below oversold and whose current RSI is
\* at or above overbought: rules (1) and (3) both match, and BUY is reported
C21_Witness ==
    /\ RsiRan
    /\ RSI_le(PreviousRsi, agent.oversold)
    /\ RSI_ge(CurrentRsi, agent.overbought)
    /\ agent_result.summary.signal = "BUY"


(***************************************************************************)
(* MACD claims (SpecAgent).                                                *)
(***************************************************************************)
\* a MACDCombinedAgent has completed run()
MacdRan ==
    /\ agent_pc = "done"
    /\ agent # None
    /\ agent.cls = "MACDCombinedAgent"
    /\ agent_result.status = "completed"

\* the MACD, signal and histogram columns run() computed
MacdColumns == _calculate_macd(agent, agent_df)

\* the last three histogram values
HistCurrent == MacdColumns.MACD_Histogram[Len(agent_df.rows)]
HistPrev1 == MacdColumns.MACD_Histogram[Len(agent_df.rows) - 1]
HistPrev2 == MacdColumns.MACD_Histogram[Len(agent_df.rows) - 2]

HistIncreasing == HistPrev1 > HistPrev2 /\ HistCurrent > HistPrev1
HistDecreasing == HistPrev1 < HistPrev2 /\ HistCurrent < HistPrev1

\* C22: over the last three histogram values the season is Spring iff
\* current < 0 and increasing, Summer iff current > 0 and increasing, Autumn
\* iff current > 0 and decreasing, Winter iff current < 0 and decreasing, and
\* Neutral in every other case; is_bullish_season is true iff the season is
\* Spring or Summer.
C22_SeasonOfHistogram ==
    MacdRan
    => LET seasonal == agent_result.summary.seasonal_analysis
           season == seasonal.current_season
       IN  /\ seasonal.is_bullish_season <=> season \in {"Spring", "Summer"}
           /\ Len(agent_df.rows) >= 3
              => /\ season = "Spring" <=> (HistCurrent < 0 /\ HistIncreasing)
                 /\ season = "Summer" <=> (HistCurrent > 0 /\ HistIncreasing)
                 /\ season = "Autumn" <=> (HistCurrent > 0 /\ HistDecreasing)
                 /\ season = "Winter" <=> (HistCurrent < 0 /\ HistDecreasing)
                 /\ season = "Neutral"
                    <=> ~(HistCurrent # 0 /\ (HistIncreasing \/ HistDecreasing))

\* a run of a valid configuration whose histogram fell twice and is still
\* positive: Autumn, not bullish
C22_Witness ==
    /\ MacdRan
    /\ MACDConfig_validate(config) = None
    /\ Len(agent_df.rows) >= 3
    /\ HistCurrent > 0 /\ HistDecreasing
    /\ agent_result.summary.seasonal_analysis.current_season = "Autumn"
    /\ ~agent_result.summary.seasonal_analysis.is_bullish_season


\* C23: the recommendation is STRONG with HIGH exactly when the signal is
\* BUY and the season is Spring or Summer, or the signal is SELL and the
\* season is Autumn or Winter; WEAK with LOW exactly when the signal is BUY
\* or SELL and is not so aligned; a NEUTRAL signal gets MODERATE with MEDIUM.
C23_RecommendationCombiner ==
    MacdRan
    => LET signal == agent_result.summary.signal
           season == agent_result.summary.seasonal_analysis.current_season
           rec == agent_result.summary.recommendation
           aligned == \/ signal = "BUY" /\ season \in {"Spring", "Summer"}
                      \/ signal = "SELL" /\ season \in {"Autumn", "Winter"}
           conflict == signal \in {"BUY", "SELL"} /\ ~aligned
       IN  /\ (rec.strength = "STRONG" /\ rec.confidence = "HIGH") <=> aligned
           /\ (rec.strength = "WEAK" /\ rec.confidence = "LOW") <=> conflict
           /\ signal = "NEUTRAL"
              => rec.strength = "MODERATE" /\ rec.confidence = "MEDIUM"


\* MACD and signal line at the latest bar and at the bar before it
MacdCurrent == MacdColumns.MACD[Len(agent_df.rows)]
SignalCurrent == MacdColumns.MACD_Signal[Len(agent_df.rows)]
MacdPrevious == MacdColumns.MACD[Len(agent_df.rows) - 1]
SignalPrevious == MacdColumns.MACD_Signal[Len(agent_df.rows) - 1]

\* the two crossover conditions at the latest bar
BullishCross ==
    /\ Len(agent_df.rows) >= 2
    /\ MacdPrevious <= SignalPrevious
    /\ MacdCurrent > SignalCurrent

BearishCross ==
    /\ Len(agent_df.rows) >= 2
    /\ MacdPrevious >= SignalPrevious
    /\ MacdCurrent < SignalCurrent

\* C24: at the latest bar BULLISH_CROSSOVER is reported iff previous MACD <=
\* previous Signal and current MACD > current Signal, BEARISH_CROSSOVER iff
\* previous MACD >= previous Signal and current MACD < current Signal, never
\* both; the signal is BUY iff bullish crossover, SELL iff bearish crossover,
\* NEUTRAL otherwise; the trend is BULLISH iff current MACD > current Signal,
\* else BEARISH.
C24_MacdCrossover ==
    MacdRan
    => LET summary == agent_result.summary
       IN  /\ summary.crossover = "BULLISH_CROSSOVER" <=> BullishCross
           /\ summary.crossover = "BEARISH_CROSSOVER" <=> BearishCross
           /\ ~(BullishCross /\ BearishCross)
           /\ summary.signal = "BUY" <=> BullishCross
           /\ summary.signal = "SELL" <=> BearishCross
           /\ summary.signal \in {"BUY", "SELL", "NEUTRAL"}
           /\ summary.trend = "BULLISH" <=> MacdCurrent > SignalCurrent
           /\ summary.trend \in {"BULLISH", "BEARISH"}

\* a run of a valid configuration whose MACD was equal to its signal line at
\* the previous bar and is above it at the latest bar: bullish crossover, BUY
C24_Witness ==
    /\ MacdRan
    /\ MACDConfig_validate(config) = None
    /\ Len(agent_df.rows) >= 2
    /\ MacdPrevious = SignalPrevious
    /\ MacdCurrent > SignalCurrent
    /\ agent_result.summary.crossover = "BULLISH_CROSSOVER"
    /\ agent_result.summary.signal = "BUY"
    /\ agent_result.summary.trend = "BULLISH"


\* C29: in every MACDCombinedAgent summary a BUY signal occurs only with
\* current season Summer or Neutral and a SELL signal only with current
\* season Winter or Neutral.
C29_SignalSeasonCompatible ==
    MacdRan
    => LET signal == agent_result.summary.signal
           season == agent_result.summary.seasonal_analysis.current_season
       IN  /\ signal = "BUY" => season \in {"Summer", "Neutral"}
           /\ signal = "SELL" => season \in {"Winter", "Neutral"}

\* a run of a valid configuration that reports BUY in Summer: the histogram
\* rose twice and crossed above zero at the latest bar
C29_Witness ==
    /\ MacdRan
    /\ MACDConfig_validate(config) = None
    /\ agent_result.summary.signal = "BUY"
    /\ agent_result.summary.seasonal_analysis.current_season = "Summer"
    /\ HistPrev1 <= 0 /\ HistCurrent > 0


(***************************************************************************)
(* SMACombinedAgent signal (SpecAgent).                                    *)
(***************************************************************************)
SmaRan ==
    /\ agent_pc = "done"
    /\ agent # None
    /\ agent.cls = "SMACombinedAgent"
    /\ agent_result.status = "completed"

\* the latest close is above the latest SMA of the given period
CloseAboveSma(period) ==
    LET close == Column(agent_df, "Close")
        n == Len(close)
    IN  period * close[n] > SumRange(close, n - period + 1, n)

\* C25: a GOLDEN_CROSS at the latest bar gives BUY and a DEATH_CROSS gives
\* SELL; with no crossover the signal is BUY iff the close is above every
\* configured SMA, SELL iff the close is at or below every configured SMA,
\* and NEUTRAL otherwise.
C25_SmaSignalPriority ==
    SmaRan
    => LET summary == agent_result.summary
           pattern == summary.crossover.pattern
           periods == {agent.short_period, agent.long_period}
           all_above == \A p \in periods : CloseAboveSma(p)
           all_below == \A p \in periods : ~CloseAboveSma(p)
       IN  /\ pattern = "GOLDEN_CROSS" => summary.signal = "BUY"
           /\ pattern = "DEATH_CROSS" => summary.signal = "SELL"
           /\ pattern \notin {"GOLDEN_CROSS", "DEATH_CROSS"}
              => /\ summary.signal = "BUY" <=> all_above
                 /\ summary.signal = "SELL" <=> all_below
                 /\ summary.signal = "NEUTRAL" <=> (~all_above /\ ~all_below)


(***************************************************************************)
(* SMADeltaCombinedAgent trend analysis (SpecAgent).                       *)
(***************************************************************************)
\* an SMADeltaCombinedAgent has completed run() with a trend analysis
DeltaRan ==
    /\ agent_pc = "done"
    /\ agent # None
    /\ agent.cls = "SMADeltaCombinedAgent"
    /\ agent_result.status = "completed"
    /\ "trend_analysis" \in DOMAIN agent_result.summary

\* the delta series of the run, without its leading NaN
DeltaSeries ==
    dropna(SMA_Delta_column(Column(agent_df, "Close"),
                            agent.short_period, agent.long_period))

\* the step from ds[m - 1] to ds[m] moves in the direction
StepInDirection(ds, rising, m) ==
    IF rising THEN ds[m] > ds[m - 1] ELSE ds[m] < ds[m - 1]

\* the number of steps, counted backward from the latest one, that all move
\* in the direction
StepsInDirection(ds, rising) ==
    Cardinality({j \in 2 .. Len(ds) :
                    \A m \in j .. Len(ds) : StepInDirection(ds, rising, m)})

\* C26: consecutive_periods is the number of consecutive steps of the delta
\* series, counted backward from the latest bar, that move in the current
\* direction (strictly rising if the latest delta rose, strictly falling
\* otherwise), stopping at the first step that does not or at the start of
\* the series.
C26_ConsecutivePeriods ==
    DeltaRan
    => agent_result.summary.trend_analysis.consecutive_periods =
           StepsInDirection(DeltaSeries, agent_result.summary.is_delta_rising)


\* C28: for the same series, atr_length and multiplier,
\* SupertrendAgent.calculate_supertrend and
\* SupertrendCombinedAgent._calculate_supertrend give the same Green/Red
\* signal at every bar, the bars before the ATR window is full included, and
\* so the same is_green flag of the latest bar.
C28_SameSignals ==
    SupertrendRan
    => LET plain == calculate_supertrend(agent, agent_df)
           combined == _calculate_supertrend(agent, agent_df)
           n == Len(agent_df.rows)
           is_green == IF agent.cls = "SupertrendAgent"
                       THEN agent_result.output.is_green
                       ELSE agent_result.summary.is_green
       IN  /\ \A i \in 1 .. n :
                plain[i].Supertrend_Signal = combined[i].Supertrend_Signal
           /\ is_green = (plain[n].Supertrend_Signal = "Green")
           /\ is_green = (combined[n].Supertrend_Signal = "Green")

\* a completed run of SupertrendCombinedAgent on a series with warm-up bars
\* that has a Green bar and a later Red bar
C28_Witness ==
    /\ SupertrendRan
    /\ agent.cls = "SupertrendCombinedAgent"
    /\ agent.atr_length >= 3
    /\ agent.multiplier >= 1
    /\ \E i \in 1 .. Len(agent_df.rows), j \in 1 .. Len(agent_df.rows) :
          /\ i < j
          /\ SupertrendRows[i].Supertrend_Signal = "Green"
          /\ SupertrendRows[j].Supertrend_Signal = "Red"

(***************************************************************************)
(* SpecLegacy: AgentOrchestrator (src/orchestrator.py).  load_data has     *)
(* returned True, so data is a frame with a Date column and at least one   *)
(* row; then initialize_agents, one of run_agents_sequential and           *)
(* run_agents_parallel, and get_consolidated_signals are called in that    *)
(* order.  results["agents"] is a dict, kept as the sequence of its items  *)
(* in insertion order, which is the order its items() are iterated in.     *)
(* ticker, timeframe and date_range of results are texts no step reads     *)
(* and are left out.                                                       *)
(***************************************************************************)
\* SMAAgent.__init__(periods)
SMAAgent(periods) ==
    [cls |-> "SMAAgent", name |-> "SMA Agent", periods |-> periods]

\* f'SMA_{period}'
SMA_column(period) ==
    CASE period = 20 -> "SMA_20"
      [] period = 50 -> "SMA_50"
      [] OTHER -> "SMA_n"

\* x > y for two rolling means given as window sums (NaN compares false)
SmaMeanGt(sx, px, sy, py) == ~IsNaN(sx) /\ ~IsNaN(sy) /\ sx * py > sy * px

\* x <= y for two rolling means given as window sums (NaN compares false)
SmaMeanLe(sx, px, sy, py) == ~IsNaN(sx) /\ ~IsNaN(sy) /\ sx * py <= sy * px

\* golden cross / death cross test shared by get_summary and
\* get_latest_signal: "BUY", "SELL" or None
SMAAgent_cross(df) ==
    LET closes == Column(df, "Close")
        n == len(df)
        sma_20 == RollingSum(closes, 20, n)
        sma_50 == RollingSum(closes, 50, n)
        prev_sma_20 == RollingSum(closes, 20, n - 1)
        prev_sma_50 == RollingSum(closes, 50, n - 1)
    IN  IF SmaMeanLe(prev_sma_20, 20, prev_sma_50, 50)
           /\ SmaMeanGt(sma_20, 20, sma_50, 50)
        THEN "BUY"
        ELSE IF SmaMeanLe(prev_sma_50, 50, prev_sma_20, 20)
                /\ SmaMeanGt(sma_50, 50, sma_20, 20)
        THEN "SELL"
        ELSE "none"

\* SMAAgent.get_latest_signal
SMAAgent_get_latest_signal(a, df) ==
    LET closes == Column(df, "Close")
        n == len(df)
        both == /\ \E k \in DOMAIN a.periods : a.periods[k] = 20
                /\ \E k \in DOMAIN a.periods : a.periods[k] = 50
        cross == IF both /\ n > 1 THEN SMAAgent_cross(df) ELSE "none"
        defined == {k \in DOMAIN a.periods :
                       ~IsNaN(RollingSum(closes, a.periods[k], n))}
        above_count ==
            Cardinality({k \in defined :
                closes[n] * a.periods[k]
                    > RollingSum(closes, a.periods[k], n)})
        below_count == Cardinality(defined) - above_count
    IN  IF cross # "none" THEN cross
        ELSE IF above_count = Len(a.periods) THEN "BUY"
        ELSE IF below_count = Len(a.periods) THEN "SELL"
        ELSE "NEUTRAL"

\* SMAAgent.get_summary; cross_pattern is kept as the signal of the cross
SMAAgent_get_summary(a, df) ==
    LET closes == Column(df, "Close")
        n == len(df)
        sma(k) == RollingSum(closes, a.periods[k], n)
    IN  [latest_price |-> Round2(closes[n], 1),
         sma_values |->
            [k \in DOMAIN a.periods |->
                IF IsNaN(sma(k)) THEN NaN ELSE Round2(sma(k), a.periods[k])],
         price_position |->
            [k \in DOMAIN a.periods |->
                IF ~IsNaN(sma(k)) /\ closes[n] * a.periods[k] > sma(k)
                THEN "ABOVE" ELSE "BELOW"],
         trading_signal |-> SMAAgent_get_latest_signal(a, df),
         parameters |-> [periods |-> a.periods],
         cross_pattern |-> IF n > 1 THEN SMAAgent_cross(df) ELSE "none"]

\* BaseAgent.run for an SMAAgent: calculate raises KeyError without a Close
\* column, get_summary raises IndexError on a frame without rows; both are
\* caught and give the failed dict
BaseAgent_run(a, df) ==
    LET raised == IF "Close" \notin df.cols THEN KeyError("Close")
                  ELSE IF len(df) = 0 THEN IndexError
                  ELSE None
    IN  IF raised # None
        THEN [agent |-> a.name, status |-> "failed", data |-> None,
              summary |-> None, error |-> str(raised)]
        ELSE [agent |-> a.name, status |-> "completed",
              data |-> WithColumns(df, {SMA_column(a.periods[k]) :
                                           k \in DOMAIN a.periods}),
              summary |-> SMAAgent_get_summary(a, df),
              error |-> None]

\* an AgentResult object: its attributes, without the dict interface
AgentResult(attrs) == [object |-> "AgentResult", attrs |-> attrs]

\* agent.run(self.data): a UnifiedAgent returns the AgentResult object, a
\* BaseAgent returns a dict
Legacy_run(a, df) ==
    IF IsUnified(a) THEN AgentResult(UnifiedAgent_run(a, df))
    ELSE BaseAgent_run(a, df)

\* d[key] = value on a dict kept as its items in insertion order
dict_set(items, key, value) ==
    IF \E i \in DOMAIN items : items[i].key = key
    THEN [i \in DOMAIN items |->
             IF items[i].key = key THEN [key |-> key, value |-> value]
             ELSE items[i]]
    ELSE Append(items, [key |-> key, value |-> value])

\* the dict self.results of run_agents_sequential / run_agents_parallel
Legacy_results(df, execution_mode, items) ==
    [data_points |-> len(df), agents |-> items,
     execution_mode |-> execution_mode]

RECURSIVE Legacy_run_all(_, _, _)
\* the for loop of run_agents_sequential
Legacy_run_all(agents, df, items) ==
    IF agents = <<>> THEN items
    ELSE Legacy_run_all(Tail(agents), df,
             dict_set(items, Head(agents).name, Legacy_run(Head(agents), df)))

RECURSIVE collect_signals(_, _)
\* the for loop of get_consolidated_signals: the list signals, or the
\* TypeError of result["status"] on an object without __getitem__
collect_signals(items, signals) ==
    IF items = <<>> THEN [raised |-> FALSE, value |-> signals]
    ELSE LET result == Head(items).value
         IN  IF "object" \in DOMAIN result
             THEN [raised |-> TRUE, exc |-> TypeError]
             ELSE IF /\ result.status = "completed"
                     /\ result.summary # None
                     /\ DOMAIN result.summary # {}
             THEN collect_signals(Tail(items),
                      Append(signals, get_or(result.summary,
                                             "trading_signal", "NEUTRAL")))
             ELSE collect_signals(Tail(items), signals)

\* list.count
count(xs, x) == Cardinality({i \in DOMAIN xs : xs[i] = x})

\* round((count / total_signals) * 100, 2), in hundredths of a percent
confidence_of(cnt, total_signals) ==
    (20000 * cnt + total_signals) \div (2 * total_signals)

\* AgentOrchestrator.get_consolidated_signals: what it returns or raises
get_consolidated_signals(res) ==
    IF DOMAIN res = {} \/ "agents" \notin DOMAIN res
    THEN [raised |-> FALSE,
          value |-> [error |-> "No results available. Run agents first."]]
    ELSE LET c == collect_signals(res.agents, <<>>)
             signals == c.value
             buy_count == count(signals, "BUY")
             sell_count == count(signals, "SELL")
             neutral_count == count(signals, "NEUTRAL")
             total_signals == Len(signals)
             overall_signal ==
                 IF total_signals = 0 THEN "NO_DATA"
                 ELSE IF buy_count > sell_count /\ buy_count >= neutral_count
                 THEN "BUY"
                 ELSE IF sell_count > buy_count /\ sell_count >= neutral_count
                 THEN "SELL"
                 ELSE "NEUTRAL"
             confidence ==
                 CASE overall_signal = "NO_DATA" -> 0
                   [] overall_signal = "BUY" ->
                        confidence_of(buy_count, total_signals)
                   [] overall_signal = "SELL" ->
                        confidence_of(sell_count, total_signals)
                   [] OTHER -> confidence_of(neutral_count, total_signals)
         IN  IF c.raised THEN c
             ELSE [raised |-> FALSE,
                   value |-> [overall_signal |-> overall_signal,
                              confidence |-> confidence,
                              individual_signals |->
                                  [BUY |-> buy_count, SELL |-> sell_count,
                                   NEUTRAL |-> neutral_count],
                              total_agents |-> total_signals]]

\* frames load_data leaves in self.data when it returns True
LoadedFrames ==
    {df \in AgentFrames \ {None} : "Date" \in df.cols /\ len(df) > 0}

InitLegacy ==
    /\ OrchIdle
    /\ AgentIdle
    /\ legacy_agents = <<>>
    /\ legacy_data \in LoadedFrames
    /\ legacy_results = EmptyDict
    /\ legacy_pc = "new"
    /\ consolidated = None

\* AgentOrchestrator.initialize_agents; the two configs are the defaults
\* get_config() holds
initialize_agents ==
    /\ legacy_pc = "new"
    /\ legacy_agents' =
          <<MACDCombinedAgent(MACDConfig(DEFAULT_MACD_FAST, DEFAULT_MACD_SLOW,
                                         DEFAULT_MACD_SIGNAL)),
            SMAAgent(<<20, 50>>),
            RSICombinedAgent(RSIConfig(DEFAULT_RSI_PERIOD,
                                       DEFAULT_RSI_OVERBOUGHT,
                                       DEFAULT_RSI_OVERSOLD,
                                       DEFAULT_RSI_EXTREME_OVERBOUGHT,
                                       DEFAULT_RSI_EXTREME_OVERSOLD))>>
    /\ legacy_pc' = "initialized"
    /\ UNCHANGED <<legacy_data, legacy_results, consolidated>>
    /\ UNCHANGED <<orchVars, agentVars>>

\* AgentOrchestrator.run_agents_sequential
run_agents_sequential ==
    /\ legacy_pc = "initialized"
    /\ legacy_results' =
          Legacy_results(legacy_data, "sequential",
                         Legacy_run_all(legacy_agents, legacy_data, <<>>))
    /\ legacy_pc' = "ran"
    /\ UNCHANGED <<legacy_agents, legacy_data, consolidated>>
    /\ UNCHANGED <<orchVars, agentVars>>

\* AgentOrchestrator.run_agents_parallel up to the submission of the tasks
run_agents_parallel ==
    /\ legacy_pc = "initialized"
    /\ legacy_results' = Legacy_results(legacy_data, "parallel", <<>>)
    /\ legacy_pc' = "collecting"
    /\ UNCHANGED <<legacy_agents, legacy_data, consolidated>>
    /\ UNCHANGED <<orchVars, agentVars>>

\* one turn of the as_completed loop of run_agents_parallel: the future of
\* any agent not yet collected may be the next to complete; agent.run
\* catches every exception, so future.result() returns.  The method returns
\* after the last turn.
Legacy_collect(i) ==
    /\ legacy_pc = "collecting"
    /\ \A k \in DOMAIN legacy_results.agents :
          legacy_results.agents[k].key # legacy_agents[i].name
    /\ LET items == dict_set(legacy_results.agents, legacy_agents[i].name,
                             Legacy_run(legacy_agents[i], legacy_data))
       IN  /\ legacy_results' = [legacy_results EXCEPT !.agents = items]
           /\ legacy_pc' = IF Len(items) = Len(legacy_agents) THEN "ran"
                           ELSE "collecting"
    /\ UNCHANGED <<legacy_agents, legacy_data, consolidated>>
    /\ UNCHANGED <<orchVars, agentVars>>

\* the call of get_consolidated_signals after the run
GetConsolidatedSignals ==
    /\ legacy_pc = "ran"
    /\ consolidated' = get_consolidated_signals(legacy_results)
    /\ legacy_pc' = "consolidated"
    /\ UNCHANGED <<legacy_agents, legacy_data, legacy_results>>
    /\ UNCHANGED <<orchVars, agentVars>>

NextLegacy ==
    \/ initialize_agents
    \/ run_agents_sequential
    \/ run_agents_parallel
    \/ \E i \in 1 .. 3 : Legacy_collect(i)
    \/ GetConsolidatedSignals

SpecLegacy == InitLegacy /\ [][NextLegacy]_vars

\* status of an item of results["agents"], object or dict
Legacy_status(result) ==
    IF "object" \in DOMAIN result THEN result.attrs.status ELSE result.status

\* the agents of the run that completed
Legacy_completed ==
    {i \in DOMAIN legacy_results.agents :
        Legacy_status(legacy_results.agents[i].value) = "completed"}

\* C27: after run_agents_sequential or run_agents_parallel over the
\* configured agents, get_consolidated_signals returns without raising; its
\* overall_signal is one of BUY, SELL, NEUTRAL and NO_DATA; every completed
\* agent is counted once, so total_agents is the number of completed agents
\* and the three counts sum to it; overall_signal is BUY exactly when
\* buy > sell and buy >= neutral, and SELL exactly when sell > buy and
\* sell >= neutral.
C27_ConsolidatedSignals ==
    legacy_pc = "consolidated" =>
        /\ ~consolidated.raised
        /\ LET v == consolidated.value
               n == v.individual_signals
           IN  /\ v.overall_signal \in {"BUY", "SELL", "NEUTRAL", "NO_DATA"}
               /\ v.total_agents = Cardinality(Legacy_completed)
               /\ n.BUY + n.SELL + n.NEUTRAL = v.total_agents
               /\ v.overall_signal = "BUY"
                     <=> (n.BUY > n.SELL /\ n.BUY >= n.NEUTRAL)
               /\ v.overall_signal = "SELL"
                     <=> (n.SELL > n.BUY /\ n.SELL >= n.NEUTRAL)

\* C30: OrchestratorAgent.status is "running" only while a run is in
\* progress: it is not "running" before run() is entered, a run() that has
\* ended, by returning or by raising, has left a status other than
\* "running", and the result a run() returns reports status "completed".
C30_RunningOnlyDuringRun ==
    /\ status = "running" => pc \notin {"init", "done", "raised"}
    /\ pc \in {"done", "raised"} => status # "running"
    /\ pc = "done" =>
          /\ ~returned.raised
          /\ returned.value.status = "completed"

====
